---- MODULE Spec2Model ----
(***************************************************************************)
(* A model of the annotated-CSV decoder of rogpeppe/annotatedcsv           *)
(* (src/main.go): the peekable row source csvReader, the schema builder    *)
(* readHeader, the value converter convertToType, the table decoder        *)
(* readTable/readTableRows and the stream decoder readAll.                 *)
(*                                                                         *)
(* Text is a sequence of one-character strings, so that prefix tests and   *)
(* number parsing are computed and not assumed.                            *)
(***************************************************************************)
EXTENDS Integers, Sequences, FiniteSets, TLC

VARIABLES
    input,      \* what the underlying csv.Reader delivers, record by record
    r,          \* the csvReader: hasPeeked, row, err, line, and r (the
                \* number of reads made of the underlying csv.Reader)
    pc,         \* where the decoder is: readHeader, readTableRows,
                \* readAllPeek, done; "client" when Peek/Read are called freely
    cols,       \* readHeader's cols, then readTableRows' cols (<<>> is nil)
    defaults,   \* readHeader's defaults (<<>> is nil)
    rows,       \* readTableRows' rows
    tables,     \* readAll's tables, and its first result when pc = "done"
    err,        \* readAll's second result when pc = "done"
    hist,       \* history: the Peek and Read calls made by a free client
    consumed,   \* history: the input rows the decoder consumed, with their role
    schemas,    \* history: the positional cols of each table appended
    reader,     \* the annotatedcsv.Reader the line-protocol encoder reads
    info,       \* writeLineProtocol's info, the tableInfo of the current table
    output      \* what writeLineProtocol has written, one line per Write

vars ==
    <<input, r, pc, cols, defaults, rows, tables, err, hist, consumed, schemas,
      reader, info, output>>

----------------------------------------------------------------------------
(* Bounds of the model *)

\* the longest input, in records, given to the decoder
MaxRows == 5
\* the longest input given to a free client of the csvReader
MaxItems == 3
\* the number of Peek and Read calls a free client makes
MaxCalls == 6
\* the longest input made of rows that declare types and defaults
MaxTyped == 4
\* the tables of an input of the encoder, and the rows of a table
MaxLPTables == 2
MaxLPRows == 2
\* the longest input of the decoder run to its end under fairness
MaxFairRows == 4

----------------------------------------------------------------------------
(* Text *)

Digits == <<"0", "1", "2", "3", "4", "5", "6", "7", "8", "9">>

\* strings.HasPrefix(s, "#")
HasHashPrefix(s) == Len(s) > 0 /\ s[1] = "#"

\* strings.HasPrefix(s, p)
HasPrefix(s, p) == Len(s) >= Len(p) /\ SubSeq(s, 1, Len(p)) = p

\* strings.TrimPrefix(s, p)
TrimPrefix(s, p) == IF HasPrefix(s, p) THEN SubSeq(s, Len(p) + 1, Len(s)) ELSE s

T_empty == <<>>
T_datatype == <<"#", "d", "a", "t", "a", "t", "y", "p", "e">>
T_group == <<"#", "g", "r", "o", "u", "p">>
T_default == <<"#", "d", "e", "f", "a", "u", "l", "t">>
T_true == <<"t", "r", "u", "e">>
T_false == <<"f", "a", "l", "s", "e">>
T_boolean == <<"b", "o", "o", "l", "e", "a", "n">>
T_long == <<"l", "o", "n", "g">>
T_unsignedLong == <<"u", "n", "s", "i", "g", "n", "e", "d", "L", "o", "n", "g">>
T_double == <<"d", "o", "u", "b", "l", "e">>
T_string == <<"s", "t", "r", "i", "n", "g">>
T_tag == <<"t", "a", "g">>
T_dateTime == <<"d", "a", "t", "e", "T", "i", "m", "e", ":">>
T_RFC3339 == <<"R", "F", "C", "3", "3", "3", "9">>
T_RFC3339Nano == <<"R", "F", "C", "3", "3", "3", "9", "N", "a", "n", "o">>

----------------------------------------------------------------------------
(* Errors and values *)

Nil == [kind |-> "nil"]
ErrEOF == [kind |-> "EOF"]
ErrParse == [kind |-> "ParseError"]

----------------------------------------------------------------------------
(* Values: what convertToType returns.                                     *)
(*   string   [kind |-> "string", s]                                       *)
(*   bool     [kind |-> "bool", b]                                         *)
(*   int64    [kind |-> "int64", neg, mag]    mag: decimal digits, no      *)
(*   uint64   [kind |-> "uint64", mag]        leading zero                 *)
(*   float64  [kind |-> "float64", neg, mant, exp]   mant * 10^exp         *)
(*   time     [kind |-> "time", date, clock, frac, zone]                   *)
(* A number keeps its decimal digits, so that the 64-bit range is decided  *)
(* exactly.                                                                *)

ErrSyntax == [kind |-> "ErrSyntax"]
ErrRange == [kind |-> "ErrRange"]

IsDigit(c) == \E i \in 1..10 : Digits[i] = c
DigitVal(c) == (CHOOSE i \in 1..10 : Digits[i] = c) - 1
AllDigits(s) == Len(s) > 0 /\ \A i \in 1..Len(s) : IsDigit(s[i])

RECURSIVE StripZeros(_)
\* the digits without leading zeros ("0" for zero)
StripZeros(ds) ==
    IF Len(ds) > 1 /\ ds[1] = "0" THEN StripZeros(Tail(ds)) ELSE ds

RECURSIVE StripTrailingZeros(_)
StripTrailingZeros(ds) ==
    IF Len(ds) > 1 /\ ds[Len(ds)] = "0"
    THEN StripTrailingZeros(SubSeq(ds, 1, Len(ds) - 1)) ELSE ds

\* a <= b for two numbers written without leading zeros
MagLeq(a, b) ==
    \/ Len(a) < Len(b)
    \/ /\ Len(a) = Len(b)
       /\ \/ a = b
          \/ LET d == CHOOSE i \in 1..Len(a) :
                          a[i] # b[i] /\ \A j \in 1..(i - 1) : a[j] = b[j]
             IN DigitVal(a[d]) < DigitVal(b[d])

RECURSIVE NatOf(_)
\* the value of a short run of digits
NatOf(ds) == IF ds = <<>> THEN 0 ELSE 10 * NatOf(SubSeq(ds, 1, Len(ds) - 1)) + DigitVal(ds[Len(ds)])

MaxInt64Mag == <<"9", "2", "2", "3", "3", "7", "2", "0", "3", "6", "8", "5", "4", "7", "7", "5", "8", "0", "7">>
MinInt64Mag == <<"9", "2", "2", "3", "3", "7", "2", "0", "3", "6", "8", "5", "4", "7", "7", "5", "8", "0", "8">>
MaxUint64Mag == <<"1", "8", "4", "4", "6", "7", "4", "4", "0", "7", "3", "7", "0", "9", "5", "5", "1", "6", "1", "5">>

\* strconv.ParseBool
ParseBool(s) ==
    IF s \in {<<"1">>, <<"t">>, <<"T">>, T_true, <<"T", "R", "U", "E">>, <<"T", "r", "u", "e">>}
    THEN [val |-> [kind |-> "bool", b |-> TRUE], err |-> Nil]
    ELSE IF s \in {<<"0">>, <<"f">>, <<"F">>, T_false, <<"F", "A", "L", "S", "E">>,
                   <<"F", "a", "l", "s", "e">>}
    THEN [val |-> [kind |-> "bool", b |-> FALSE], err |-> Nil]
    ELSE [val |-> [kind |-> "bool", b |-> FALSE], err |-> ErrSyntax]

\* strconv.ParseInt(s, 10, 64)
ParseInt(s) ==
    LET signed == Len(s) > 0 /\ s[1] \in {"+", "-"}
        neg == Len(s) > 0 /\ s[1] = "-"
        ds == IF signed THEN Tail(s) ELSE s
        mag == StripZeros(ds)
        lim == IF neg THEN MinInt64Mag ELSE MaxInt64Mag
    IN IF ~AllDigits(ds)
       THEN [val |-> [kind |-> "int64", neg |-> FALSE, mag |-> <<"0">>], err |-> ErrSyntax]
       ELSE IF ~MagLeq(mag, lim)
       THEN [val |-> [kind |-> "int64", neg |-> neg, mag |-> lim], err |-> ErrRange]
       ELSE [val |-> [kind |-> "int64", neg |-> neg /\ mag # <<"0">>, mag |-> mag],
             err |-> Nil]

\* strconv.ParseUint(s, 10, 64)
ParseUint(s) ==
    LET mag == StripZeros(s)
    IN IF ~AllDigits(s)
       THEN [val |-> [kind |-> "uint64", mag |-> <<"0">>], err |-> ErrSyntax]
       ELSE IF ~MagLeq(mag, MaxUint64Mag)
       THEN [val |-> [kind |-> "uint64", mag |-> MaxUint64Mag], err |-> ErrRange]
       ELSE [val |-> [kind |-> "uint64", mag |-> mag], err |-> Nil]

\* the letters of "infinity" and "nan", lowered
Lower(c) ==
    CASE c = "I" -> "i" [] c = "N" -> "n" [] c = "F" -> "f" [] c = "T" -> "t"
      [] c = "Y" -> "y" [] c = "A" -> "a" [] OTHER -> c

EqualFold(s, t) == Len(s) = Len(t) /\ \A i \in 1..Len(s) : Lower(s[i]) = Lower(t[i])

\* the length of the longest prefix of s made of digits
DigitPrefix(s) ==
    IF \A i \in 1..Len(s) : IsDigit(s[i]) THEN Len(s)
    ELSE (CHOOSE i \in 1..Len(s) : ~IsDigit(s[i]) /\ \A j \in 1..(i - 1) : IsDigit(s[j])) - 1

\* 0.a < 0.b for two runs of digits without trailing zeros
FracLess(a, b) ==
    LET n == IF Len(a) < Len(b) THEN Len(a) ELSE Len(b)
    IN IF \A i \in 1..n : a[i] = b[i] THEN Len(a) < Len(b)
       ELSE LET d == CHOOSE i \in 1..n : a[i] # b[i] /\ \A j \in 1..(i - 1) : a[j] = b[j]
            IN DigitVal(a[d]) < DigitVal(b[d])

\* the digits of 2^1024 - 2^970, half way between the largest float64 and
\* 2^1024: a decimal of 309 integer digits overflows from here on
OverflowDigits ==
    <<"1", "7", "9", "7", "6", "9", "3", "1", "3", "4", "8", "6", "2", "3", "1",
    "5", "8", "0", "7", "9", "3", "7", "2", "8", "9", "7", "1", "4", "0", "5",
    "3", "0", "3", "4", "1", "5", "0", "7", "9", "9", "3", "4", "1", "3", "2",
    "7", "1", "0", "0", "3", "7", "8", "2", "6", "9", "3", "6", "1", "7", "3",
    "7", "7", "8", "9", "8", "0", "4", "4", "4", "9", "6", "8", "2", "9", "2",
    "7", "6", "4", "7", "5", "0", "9", "4", "6", "6", "4", "9", "0", "1", "7",
    "9", "7", "7", "5", "8", "7", "2", "0", "7", "0", "9", "6", "3", "3", "0",
    "2", "8", "6", "4", "1", "6", "6", "9", "2", "8", "8", "7", "9", "1", "0",
    "9", "4", "6", "5", "5", "5", "5", "4", "7", "8", "5", "1", "9", "4", "0",
    "4", "0", "2", "6", "3", "0", "6", "5", "7", "4", "8", "8", "6", "7", "1",
    "5", "0", "5", "8", "2", "0", "6", "8", "1", "9", "0", "8", "9", "0", "2",
    "0", "0", "0", "7", "0", "8", "3", "8", "3", "6", "7", "6", "2", "7", "3",
    "8", "5", "4", "8", "4", "5", "8", "1", "7", "7", "1", "1", "5", "3", "1",
    "7", "6", "4", "4", "7", "5", "7", "3", "0", "2", "7", "0", "0", "6", "9",
    "8", "5", "5", "5", "7", "1", "3", "6", "6", "9", "5", "9", "6", "2", "2",
    "8", "4", "2", "9", "1", "4", "8", "1", "9", "8", "6", "0", "8", "3", "4",
    "9", "3", "6", "4", "7", "5", "2", "9", "2", "7", "1", "9", "0", "7", "4",
    "1", "6", "8", "4", "4", "4", "3", "6", "5", "5", "1", "0", "7", "0", "4",
    "3", "4", "2", "7", "1", "1", "5", "5", "9", "6", "9", "9", "5", "0", "8",
    "0", "9", "3", "0", "4", "2", "8", "8", "0", "1", "7", "7", "9", "0", "4",
    "1", "7", "4", "4", "9", "7", "7", "9", "2">>

FloatZero(neg) == [kind |-> "float64", class |-> "finite", neg |-> neg, mant |-> <<"0">>, exp |-> 0]
FloatInf(neg) == [kind |-> "float64", class |-> "inf", neg |-> neg, mant |-> <<"0">>, exp |-> 0]
FloatNaN == [kind |-> "float64", class |-> "nan", neg |-> FALSE, mant |-> <<"0">>, exp |-> 0]

FloatBad == [val |-> FloatZero(FALSE), err |-> ErrSyntax]

\* the float64 of mant * 10^exp, or the overflow
FloatOf(neg, mant, exp) ==
    IF mant = <<"0">> THEN [val |-> FloatZero(neg), err |-> Nil]
    ELSE IF Len(mant) + exp > 309 \/ (Len(mant) + exp = 309 /\ ~FracLess(mant, OverflowDigits))
    THEN [val |-> FloatInf(neg), err |-> ErrRange]
    ELSE [val |-> [kind |-> "float64", class |-> "finite", neg |-> neg,
                   mant |-> mant, exp |-> exp],
          err |-> Nil]

\* the digits `all` of a mantissa with nfrac digits after the point, times 10^e
FloatNorm(neg, all, nfrac, e) ==
    FloatOf(neg, StripTrailingZeros(all),
            e - nfrac + (Len(all) - Len(StripTrailingZeros(all))))

\* the digits of an exponent, capped as strconv caps them
FloatExpDigits(neg, int, frac, eneg, eds) ==
    IF ~AllDigits(eds) THEN FloatBad
    ELSE FloatNorm(neg, StripZeros(int \o frac), Len(frac),
                   (IF eneg THEN -1 ELSE 1)
                       * (IF Len(StripZeros(eds)) > 4 THEN 10000 ELSE NatOf(StripZeros(eds))))

\* what follows the mantissa: nothing, or an exponent
FloatExp(neg, int, frac, t) ==
    IF Len(int) + Len(frac) = 0 THEN FloatBad
    ELSE IF t = <<>> THEN FloatNorm(neg, StripZeros(int \o frac), Len(frac), 0)
    ELSE IF t[1] \notin {"e", "E"} THEN FloatBad
    ELSE IF Len(t) > 1 /\ t[2] \in {"+", "-"}
    THEN FloatExpDigits(neg, int, frac, t[2] = "-", SubSeq(t, 3, Len(t)))
    ELSE FloatExpDigits(neg, int, frac, FALSE, Tail(t))

\* what follows the integer digits: a point and more digits, or not
FloatFrac(neg, int, t) ==
    IF Len(t) > 0 /\ t[1] = "."
    THEN FloatExp(neg, int, SubSeq(t, 2, DigitPrefix(Tail(t)) + 1),
                  SubSeq(t, DigitPrefix(Tail(t)) + 2, Len(t)))
    ELSE FloatExp(neg, int, <<>>, t)

\* a text without its sign: a special value or a decimal number
FloatUnsigned(neg, t) ==
    IF EqualFold(t, <<"i", "n", "f">>) \/ EqualFold(t, <<"i", "n", "f", "i", "n", "i", "t", "y">>)
    THEN [val |-> FloatInf(neg), err |-> Nil]
    ELSE FloatFrac(neg, SubSeq(t, 1, DigitPrefix(t)), SubSeq(t, DigitPrefix(t) + 1, Len(t)))

\* strconv.ParseFloat(s, 64) on special values and decimal numbers (a
\* hexadecimal mantissa and digit-separating underscores are not modelled).
\* The value is the decimal read, mant * 10^exp, which Go rounds to the
\* nearest float64.
ParseFloat(s) ==
    IF EqualFold(s, <<"n", "a", "n">>) THEN [val |-> FloatNaN, err |-> Nil]
    ELSE IF Len(s) > 0 /\ s[1] \in {"+", "-"} THEN FloatUnsigned(s[1] = "-", Tail(s))
    ELSE FloatUnsigned(FALSE, s)

ErrTimeParse == [kind |-> "ErrTimeParse"]

\* the days of a month of the Gregorian calendar
DaysIn(y, m) ==
    IF m = 2 THEN (IF y % 4 = 0 /\ (y % 100 # 0 \/ y % 400 = 0) THEN 29 ELSE 28)
    ELSE IF m \in {4, 6, 9, 11} THEN 30 ELSE 31

\* time.Parse returns the zero Time with its error
TimeBad ==
    [val |-> [kind |-> "time", date |-> <<1, 1, 1>>, clock |-> <<0, 0, 0>>,
              frac |-> <<"0", "0", "0", "0", "0", "0", "0", "0", "0">>, zone |-> 0],
     err |-> ErrTimeParse]

\* the zone z that ends the text: Z, +hh:mm or -hh:mm
TimeZone(date, clock, frac, z) ==
    IF z = <<"Z">>
    THEN [val |-> [kind |-> "time", date |-> date, clock |-> clock, frac |-> frac, zone |-> 0],
          err |-> Nil]
    ELSE IF /\ Len(z) = 6 /\ z[1] \in {"+", "-"}
            /\ AllDigits(SubSeq(z, 2, 3)) /\ z[4] = ":" /\ AllDigits(SubSeq(z, 5, 6))
            /\ NatOf(SubSeq(z, 2, 3)) < 24 /\ NatOf(SubSeq(z, 5, 6)) < 60
    THEN [val |-> [kind |-> "time", date |-> date, clock |-> clock, frac |-> frac,
                   zone |-> (IF z[1] = "-" THEN -1 ELSE 1)
                                * (60 * NatOf(SubSeq(z, 2, 3)) + NatOf(SubSeq(z, 5, 6)))],
          err |-> Nil]
    ELSE TimeBad

\* the text t after the seconds: an optional fraction of a second (kept
\* to the nanosecond), then the zone
TimeFrac(date, clock, t) ==
    IF Len(t) > 1 /\ t[1] \in {".", ","} /\ IsDigit(t[2])
    THEN TimeZone(date, clock,
                  SubSeq(SubSeq(t, 2, DigitPrefix(Tail(t)) + 1)
                             \o <<"0", "0", "0", "0", "0", "0", "0", "0", "0">>, 1, 9),
                  SubSeq(t, DigitPrefix(Tail(t)) + 2, Len(t)))
    ELSE TimeZone(date, clock, <<"0", "0", "0", "0", "0", "0", "0", "0", "0">>, t)

\* the date <<y, m, d>> and the time of day <<h, m, s>>, in range or not
TimeFields(date, clock, t) ==
    IF /\ date[2] \in 1..12 /\ date[3] \in 1..DaysIn(date[1], date[2])
       /\ clock[1] < 24 /\ clock[2] < 60 /\ clock[3] < 60
    THEN TimeFrac(date, clock, t)
    ELSE TimeBad

\* time.Parse(time.RFC3339, s) and time.Parse(time.RFC3339Nano, s), which
\* accept the same texts: yyyy-mm-ddThh:mm:ss, an optional fraction of a
\* second, and Z or a numeric zone +hh:mm / -hh:mm.
ParseTime(s) ==
    IF /\ Len(s) >= 20
       /\ AllDigits(SubSeq(s, 1, 4)) /\ s[5] = "-"
       /\ AllDigits(SubSeq(s, 6, 7)) /\ s[8] = "-"
       /\ AllDigits(SubSeq(s, 9, 10)) /\ s[11] = "T"
       /\ AllDigits(SubSeq(s, 12, 13)) /\ s[14] = ":"
       /\ AllDigits(SubSeq(s, 15, 16)) /\ s[17] = ":"
       /\ AllDigits(SubSeq(s, 18, 19))
    THEN TimeFields(<<NatOf(SubSeq(s, 1, 4)), NatOf(SubSeq(s, 6, 7)), NatOf(SubSeq(s, 9, 10))>>,
                    <<NatOf(SubSeq(s, 12, 13)), NatOf(SubSeq(s, 15, 16)),
                      NatOf(SubSeq(s, 18, 19))>>,
                    SubSeq(s, 20, Len(s)))
    ELSE TimeBad

\* var timeFormats: the layouts known by name
timeFormats == {T_RFC3339, T_RFC3339Nano}

ErrUnknownTimeFormat(typ) == [kind |-> "unknownTimeFormat", typ |-> typ]

String(s) == [kind |-> "string", s |-> s]

\* func convertToType(s string, typ string) (interface{}, error)
convertToType(s, typ) ==
    IF typ = T_boolean THEN ParseBool(s)
    ELSE IF typ = T_long THEN ParseInt(s)
    ELSE IF typ = T_unsignedLong THEN ParseUint(s)
    ELSE IF typ = T_double
    THEN LET x == ParseFloat(s)
         IN IF x.err # Nil THEN [val |-> Nil, err |-> x.err]
            ELSE IF x.val.class \in {"inf", "nan"} THEN [val |-> String(s), err |-> Nil]
            ELSE x
    ELSE IF typ \in {T_string, T_tag, T_empty} THEN [val |-> String(s), err |-> Nil]
    ELSE IF Len(TrimPrefix(typ, T_dateTime)) # Len(typ)
    THEN IF TrimPrefix(typ, T_dateTime) \notin timeFormats
         THEN [val |-> Nil, err |-> ErrUnknownTimeFormat(typ)]
         ELSE ParseTime(s)
    ELSE [val |-> String(s), err |-> Nil]

----------------------------------------------------------------------------
(* The underlying csv.Reader and the csvReader *)

\* r.r.Read(): the n-th read of the underlying reader. With
\* FieldsPerRecord = -1 it delivers the records in order, a parse error
\* in place of a malformed record, and io.EOF from the end on.
UnderlyingRead(n) ==
    IF n <= Len(input) THEN input[n] ELSE [row |-> <<>>, err |-> ErrEOF]

csvReader == [hasPeeked |-> FALSE, row |-> <<>>, err |-> Nil, r |-> 0, line |-> 0]

\* Read as it would be if it forgot to clear the lookahead buffer
ReadKeepsBuffer(rd) ==
    IF rd.hasPeeked
    THEN [r |-> rd, row |-> rd.row, err |-> rd.err]
    ELSE LET res == UnderlyingRead(rd.r + 1)
         IN [r |-> [rd EXCEPT !.line = @ + 1, !.r = @ + 1],
             row |-> res.row, err |-> res.err]

\* Read as it would be if it counted a line for a row already peeked
ReadCountsAgain(rd) ==
    IF rd.hasPeeked
    THEN [r |-> [rd EXCEPT !.hasPeeked = FALSE, !.line = @ + 1],
          row |-> rd.row, err |-> rd.err]
    ELSE LET res == UnderlyingRead(rd.r + 1)
         IN [r |-> [rd EXCEPT !.line = @ + 1, !.r = @ + 1],
             row |-> res.row, err |-> res.err]

\* func (r *csvReader) Read() ([]string, error)
Read(rd) ==
    IF rd.hasPeeked
    THEN [r |-> [rd EXCEPT !.hasPeeked = FALSE], row |-> rd.row, err |-> rd.err]
    ELSE LET res == UnderlyingRead(rd.r + 1)
         IN [r |-> [rd EXCEPT !.line = @ + 1, !.r = @ + 1],
             row |-> res.row, err |-> res.err]

\* Peek as it would be if it did not count the line of the row it reads
PeekCountsNoLine(rd) ==
    IF rd.hasPeeked
    THEN [r |-> rd, row |-> rd.row, err |-> rd.err]
    ELSE LET res == UnderlyingRead(rd.r + 1)
         IN [r |-> [rd EXCEPT !.hasPeeked = TRUE,
                              !.row = res.row, !.err = res.err, !.r = @ + 1],
             row |-> res.row, err |-> res.err]

\* func (r *csvReader) Peek() ([]string, error)
Peek(rd) ==
    IF rd.hasPeeked
    THEN [r |-> rd, row |-> rd.row, err |-> rd.err]
    ELSE LET res == UnderlyingRead(rd.r + 1)
         IN [r |-> [rd EXCEPT !.line = @ + 1, !.hasPeeked = TRUE,
                              !.row = res.row, !.err = res.err, !.r = @ + 1],
             row |-> res.row, err |-> res.err]

----------------------------------------------------------------------------
(* A free client of the csvReader: any interleaving of Peek and Read *)

RECURSIVE SeqsUpTo(_, _)
\* all sequences over S of length at most n
SeqsUpTo(S, n) ==
    IF n = 0 THEN {<<>>}
    ELSE LET shorter == SeqsUpTo(S, n - 1)
         IN shorter \cup {Append(s, x) : s \in {t \in shorter : Len(t) = n - 1}, x \in S}

ReaderItems ==
    { [row |-> <<<<"a">>>>, err |-> Nil],
      [row |-> <<<<"b">>, T_empty>>, err |-> Nil],
      [row |-> <<<<"c">>>>, err |-> ErrParse] }

DecoderIdle ==
    /\ cols = <<>> /\ defaults = <<>> /\ rows = <<>> /\ tables = <<>>
    /\ err = Nil /\ consumed = <<>> /\ schemas = <<>>
    /\ reader = Nil /\ info = Nil /\ output = <<>>

InitReader ==
    /\ input \in SeqsUpTo(ReaderItems, MaxItems)
    /\ r = csvReader
    /\ pc = "client"
    /\ hist = <<>>
    /\ DecoderIdle

CallPeek ==
    /\ pc = "client"
    /\ Len(hist) < MaxCalls
    /\ LET res == Peek(r)
       IN /\ r' = res.r
          /\ hist' = Append(hist, [op |-> "Peek", row |-> res.row, err |-> res.err,
                                   reads |-> res.r.r, line |-> res.r.line])
    /\ UNCHANGED <<input, pc, cols, defaults, rows, tables, err, consumed, schemas,
                   reader, info, output>>

CallRead ==
    /\ pc = "client"
    /\ Len(hist) < MaxCalls
    /\ LET res == Read(r)
       IN /\ r' = res.r
          /\ hist' = Append(hist, [op |-> "Read", row |-> res.row, err |-> res.err,
                                   reads |-> res.r.r, line |-> res.r.line])
    /\ UNCHANGED <<input, pc, cols, defaults, rows, tables, err, consumed, schemas,
                   reader, info, output>>

NextReader == CallPeek \/ CallRead

SpecReader == InitReader /\ [][NextReader]_vars

----------------------------------------------------------------------------
(* The schema builder: readHeader *)

\* type column, zero valued
column == [Index |-> 0, Name |-> T_empty, Group |-> FALSE, Default |-> Nil, Type |-> T_empty]

ErrNoColumns(line) == [kind |-> "noColumns", line |-> line]
\* the error as it would be with its two counts taken for one another
ErrHeaderSwapped(got, want) == [kind |-> "inconsistentHeader", got |-> want, want |-> got]
ErrHeader(got, want) == [kind |-> "inconsistentHeader", got |-> got, want |-> want]
ErrDefault(val, typ, cause) ==
    [kind |-> "cannotConvertDefault", val |-> val, typ |-> typ, cause |-> cause]
ErrColumns(line) == [kind |-> "inconsistentColumns", line |-> line]
ErrField(val, typ, line) == [kind |-> "cannotParse", val |-> val, typ |-> typ, line |-> line]

\* the switch as it would be if a row with an unknown key were taken for
\* the row of the defaults
AnnotateUnknownAsDefault(cs, ds, row) ==
    IF row[1] = T_datatype
    THEN [cols |-> [i \in 1..Len(cs) |-> IF i >= 2 THEN [cs[i] EXCEPT !.Type = row[i]] ELSE cs[i]],
          defaults |-> ds]
    ELSE IF row[1] = T_group
    THEN [cols |-> [i \in 1..Len(cs) |->
                       IF i >= 2 THEN [cs[i] EXCEPT !.Group = (row[i] = T_true)] ELSE cs[i]],
          defaults |-> ds]
    ELSE [cols |-> cs, defaults |-> row]

\* the switch on row[0] of an annotation row
Annotate(cs, ds, row) ==
    IF row[1] = T_datatype
    THEN [cols |-> [i \in 1..Len(cs) |-> IF i >= 2 THEN [cs[i] EXCEPT !.Type = row[i]] ELSE cs[i]],
          defaults |-> ds]
    ELSE IF row[1] = T_group
    THEN [cols |-> [i \in 1..Len(cs) |->
                       IF i >= 2 THEN [cs[i] EXCEPT !.Group = (row[i] = T_true)] ELSE cs[i]],
          defaults |-> ds]
    ELSE IF row[1] = T_default THEN [cols |-> cs, defaults |-> row]
    ELSE [cols |-> cs, defaults |-> ds]

\* the turn as it would be if the field count of the header row were not
\* checked, a short header row leaving the last columns unnamed
HeaderRowUnchecked(cs, ds, row, line) ==
    LET fresh == [i \in 1..Len(row) |-> column]
        cs1 == IF cs = <<>> THEN fresh ELSE cs
        stop(e) == [cols |-> <<>>, defaults |-> ds, done |-> TRUE, err |-> e]
    IN IF cs = <<>> /\ Len(row) = 0 THEN stop(ErrNoColumns(line))
       ELSE IF ~HasHashPrefix(row[1])
       THEN [cols |-> [i \in 1..Len(cs1) |->
                          [cs1[i] EXCEPT !.Name = IF i <= Len(row) THEN row[i] ELSE T_empty]],
             defaults |-> ds, done |-> TRUE, err |-> Nil]
       ELSE IF cs # <<>> /\ Len(row) # Len(cs) THEN stop(ErrHeader(Len(row), Len(cs)))
       ELSE LET a == Annotate(cs1, ds, row)
            IN [cols |-> a.cols, defaults |-> a.defaults, done |-> FALSE, err |-> Nil]

\* one turn of readHeader's loop on a row just read, at line `line`: the
\* cols and defaults after it, whether the loop ends (the header row), and
\* the error returned, if any
HeaderRow(cs, ds, row, line) ==
    LET fresh == [i \in 1..Len(row) |-> column]
        cs1 == IF cs = <<>> THEN fresh ELSE cs
        stop(e) == [cols |-> <<>>, defaults |-> ds, done |-> TRUE, err |-> e]
    IN IF cs = <<>> /\ Len(row) = 0 THEN stop(ErrNoColumns(line))
       ELSE IF cs # <<>> /\ Len(row) # Len(cs) THEN stop(ErrHeader(Len(row), Len(cs)))
       ELSE IF ~HasHashPrefix(row[1])
       THEN [cols |-> [i \in 1..Len(cs1) |-> [cs1[i] EXCEPT !.Name = row[i]]],
             defaults |-> ds, done |-> TRUE, err |-> Nil]
       ELSE LET a == Annotate(cs1, ds, row)
            IN [cols |-> a.cols, defaults |-> a.defaults, done |-> FALSE, err |-> Nil]

\* the conversion of the defaults as it would be if done before the types
\* of the columns are known
ApplyDefaultsUntyped(cs, ds) ==
    [cols |-> [i \in 1..Len(cs) |->
                  IF i \in 2..Len(ds) /\ ds[i] # T_empty
                  THEN [cs[i] EXCEPT !.Default = convertToType(ds[i], T_empty).val]
                  ELSE cs[i]],
     err |-> Nil]

\* readHeader after its loop: the deferred defaults are converted with the
\* types of the columns
ApplyDefaults(cs, ds) ==
    LET used == {i \in 2..Len(ds) : ds[i] # T_empty}
        bad == {i \in used : convertToType(ds[i], cs[i].Type).err # Nil}
        first == CHOOSE i \in bad : \A j \in bad : i <= j
    IN IF bad # {}
       THEN [cols |-> <<>>,
             err |-> ErrDefault(ds[first], cs[first].Type,
                                convertToType(ds[first], cs[first].Type).err)]
       ELSE [cols |-> [i \in 1..Len(cs) |->
                          IF i \in used
                          THEN [cs[i] EXCEPT !.Default = convertToType(ds[i], cs[i].Type).val]
                          ELSE cs[i]],
             err |-> Nil]

----------------------------------------------------------------------------
(* The table decoder: readTableRows and readTable *)

\* the test as it would be if only an error ended the loop
EndsTableOnError(p) == p.err # Nil

\* the test that ends readTableRows' loop on what Peek returned: an error,
\* or a row that starts the next table
EndsTable(p) == p.err # Nil \/ (Len(p.row) > 0 /\ HasHashPrefix(p.row[1]))

\* the fields of a data row that put a key in the row's map
Keyed(cs, row) ==
    {i \in 1..Len(row) :
        \/ cs[i].Default # Nil /\ row[i] = T_empty
        \/ ~(row[i] = T_empty /\ cs[i].Name = T_empty)}

\* the fields of a data row that are converted
Converted(cs, row) ==
    {i \in Keyed(cs, row) : ~(cs[i].Default # Nil /\ row[i] = T_empty)}

\* the loop over the fields of a data row read at line `line`: rowMap,
\* where a later column of the same name overwrites an earlier one, or the
\* error of the first field that does not convert
RowMap(cs, row, line) ==
    LET bad == {i \in Converted(cs, row) : convertToType(row[i], cs[i].Type).err # Nil}
        first == CHOOSE i \in bad : \A j \in bad : i <= j
        keyed == Keyed(cs, row)
        last(n) == CHOOSE i \in keyed : cs[i].Name = n /\ \A j \in keyed : cs[j].Name = n => j <= i
        value(i) == IF cs[i].Default # Nil /\ row[i] = T_empty THEN cs[i].Default
                    ELSE convertToType(row[i], cs[i].Type).val
    IN IF bad # {}
       THEN [rowMap |-> <<>>, err |-> ErrField(row[first], cs[first].Type, line)]
       ELSE [rowMap |-> [n \in {cs[i].Name : i \in keyed} |-> value(last(n))], err |-> Nil]

\* readTable's columnsMap, where a later column of the same name overwrites
\* an earlier one
ColumnsMap(cs) ==
    LET kept == {i \in 1..Len(cs) : ~(cs[i].Name = T_empty /\ cs[i].Default = Nil)}
        last(n) == CHOOSE i \in kept : cs[i].Name = n /\ \A j \in kept : cs[j].Name = n => j <= i
    IN [n \in {cs[i].Name : i \in kept} |-> [cs[last(n)] EXCEPT !.Index = last(n) - 1]]

\* type table
table(cs, rs) == [Columns |-> ColumnsMap(cs), Rows |-> rs]

----------------------------------------------------------------------------
(* The inputs of the decoder *)

Item(row) == [row |-> row, err |-> Nil]

T_value == <<"v", "a", "l", "u", "e">>

\* the rows of the example of an annotated table
ExampleRows ==
    { Item(<<T_datatype, T_string, T_long>>),
      Item(<<T_group, T_false, T_false>>),
      Item(<<T_empty, T_value>>),
      Item(<<<<"m">>, <<"1">>>>),
      Item(<<<<"m">>, <<"2">>>>) }

\* rows of two fields that declare and use a schema
SchemaRows ==
    { Item(<<T_datatype, T_long>>),
      Item(<<T_default, <<"7">>>>),
      Item(<<T_group, T_true>>),
      Item(<<T_empty, <<"v">>>>),
      Item(<<T_empty, T_empty>>),
      Item(<<T_empty, <<"1">>>>) }

\* rows of one and two fields, and a record the csv.Reader cannot parse
ShapeRows ==
    { Item(<<T_group, T_true>>),
      Item(<<T_empty, <<"v">>>>),
      Item(<<<<"a">>>>),
      Item(<<<<"m">>, <<"1">>>>),
      Item(<<T_empty, T_empty>>),
      [row |-> <<<<"q">>>>, err |-> ErrParse] }

\* rows of three fields: two columns of one name, the first with a default
SameNameRows ==
    { Item(<<T_default, <<"7">>, T_empty>>),
      Item(<<T_datatype, T_long, T_empty>>),
      Item(<<T_empty, <<"a">>, <<"a">>>>),
      Item(<<T_empty, T_empty, <<"x">>>>),
      Item(<<T_empty, <<"5">>, T_empty>>) }

T_int == <<"i", "n", "t">>
T_unknownKey == <<"#", "f", "o", "o">>
T_NaN == <<"N", "a", "N">>
T_instant ==
    <<"2", "0", "2", "3", "-", "0", "1", "-", "0", "1", "T",
      "0", "0", ":", "0", "0", ":", "0", "0", "Z">>

\* rows of two fields that declare each type and a default of each kind
TypedRows ==
    { Item(<<T_datatype, T_boolean>>),
      Item(<<T_datatype, T_long>>),
      Item(<<T_datatype, T_unsignedLong>>),
      Item(<<T_datatype, T_double>>),
      Item(<<T_datatype, T_dateTime \o T_RFC3339>>),
      Item(<<T_default, T_true>>),
      Item(<<T_default, <<"7">>>>),
      Item(<<T_default, T_NaN>>),
      Item(<<T_default, T_instant>>),
      Item(<<T_empty, <<"v">>>>) }

\* rows of two fields with an annotation key and type tags that are not
\* known
AnomalyRows ==
    { Item(<<T_unknownKey, <<"x">>>>),
      Item(<<T_datatype, T_int>>),
      Item(<<T_datatype, T_dateTime \o T_int>>),
      Item(<<T_default, <<"7">>>>),
      Item(<<T_group, T_true>>),
      Item(<<T_empty, <<"v">>>>),
      Item(<<T_empty, <<"x">>>>) }

Inputs ==
    SeqsUpTo(ExampleRows, MaxRows) \cup SeqsUpTo(SchemaRows, MaxRows)
        \cup SeqsUpTo(ShapeRows, MaxRows) \cup SeqsUpTo(SameNameRows, MaxRows)
        \cup SeqsUpTo(TypedRows, MaxTyped) \cup SeqsUpTo(AnomalyRows, MaxRows)

----------------------------------------------------------------------------
(* The stream decoder: readAll, readTable, and the loops of readHeader and *)
(* readTableRows, one turn of a loop per step                              *)

\* readHeader's locals as they would be if they outlived a call
HeaderLocalsKept == [cols |-> cols, defaults |-> defaults]

\* readHeader's locals as declared: var cols []column; var defaults []string
HeaderLocals == [cols |-> <<>>, defaults |-> <<>>]

Init ==
    /\ input \in Inputs
    /\ r = csvReader
    /\ pc = "readHeader"
    /\ hist = <<>>
    /\ DecoderIdle
    /\ cols = HeaderLocals.cols
    /\ defaults = HeaderLocals.defaults

\* readAll returns: `ts` and `e` are its results
Return(ts, e) ==
    /\ pc' = "done"
    /\ tables' = ts
    /\ err' = e
    /\ cols' = <<>>
    /\ defaults' = <<>>
    /\ rows' = <<>>

\* one turn of the loop of readHeader (called by readTable, called by
\* readAll); on the header row, the rest of readHeader
ReadHeader ==
    /\ pc = "readHeader"
    /\ LET p == Peek(r)
           rd == Read(p.r)
           st == HeaderRow(cols, defaults, p.row, rd.r.line)
           d == ApplyDefaults(st.cols, st.defaults)
       IN IF p.err # Nil
          THEN \* return cols, nil: readTable goes on to readTableRows
               /\ r' = p.r
               /\ pc' = "readTableRows"
               /\ rows' = <<>>
               /\ UNCHANGED <<cols, defaults, tables, err, consumed, schemas>>
          ELSE /\ r' = rd.r
               /\ consumed' = Append(consumed, [idx |-> rd.r.r, role |-> "header",
                                                table |-> Len(tables) + 1, row |-> rd.row])
               /\ schemas' = schemas
               /\ IF st.err # Nil THEN Return(tables, st.err)
                  ELSE IF ~st.done
                  THEN /\ cols' = st.cols
                       /\ defaults' = st.defaults
                       /\ UNCHANGED <<pc, rows, tables, err>>
                  ELSE IF st.defaults # <<>> /\ d.err # Nil THEN Return(tables, d.err)
                  ELSE /\ cols' = IF st.defaults # <<>> THEN d.cols ELSE st.cols
                       /\ defaults' = st.defaults
                       /\ pc' = "readTableRows"
                       /\ rows' = <<>>
                       /\ UNCHANGED <<tables, err>>
    /\ UNCHANGED <<input, hist, reader, info, output>>

\* one turn of the loop of readTableRows; when the loop ends, the rest of
\* readTable and readAll's append of the table
ReadTableRows ==
    /\ pc = "readTableRows"
    /\ LET p == Peek(r)
           rd == Read(p.r)
           m == RowMap(cols, p.row, rd.r.line)
       IN IF EndsTable(p)
          THEN \* return rows, nil
               /\ r' = p.r
               /\ tables' = Append(tables, table(cols, rows))
               /\ schemas' = Append(schemas, cols)
               /\ pc' = "readAllPeek"
               /\ UNCHANGED <<cols, defaults, rows, err, consumed>>
          ELSE /\ r' = rd.r
               /\ consumed' = Append(consumed, [idx |-> rd.r.r, role |-> "data",
                                                table |-> Len(tables) + 1, row |-> rd.row])
               /\ schemas' = schemas
               /\ IF Len(p.row) # Len(cols) THEN Return(tables, ErrColumns(rd.r.line))
                  ELSE IF m.err # Nil THEN Return(tables, m.err)
                  ELSE /\ rows' = Append(rows, m.rowMap)
                       /\ UNCHANGED <<pc, cols, defaults, tables, err>>
    /\ UNCHANGED <<input, hist, reader, info, output>>

\* readAll's peek as it would be if any error of the peek ended the stream
\* as the end of the input does
ReadAllPeekAnyErrorEnds ==
    /\ pc = "readAllPeek"
    /\ LET p == Peek(r)
       IN /\ r' = p.r
          /\ IF p.err # Nil THEN Return(tables, Nil)
             ELSE /\ pc' = "readHeader"
                  /\ cols' = HeaderLocals.cols
                  /\ defaults' = HeaderLocals.defaults
                  /\ rows' = <<>>
                  /\ UNCHANGED <<tables, err>>
    /\ UNCHANGED <<input, hist, consumed, schemas, reader, info, output>>

\* readAll's peek as it would be were it a Read: the row that starts the
\* next table is taken out of the lookahead buffer
ReadAllPeekConsumes ==
    /\ pc = "readAllPeek"
    /\ LET p == Peek(r)
       IN /\ r' = Read(p.r).r
          /\ IF p.err = ErrEOF THEN Return(tables, Nil)
             ELSE IF p.err # Nil THEN Return(<<>>, p.err)
             ELSE /\ pc' = "readHeader"
                  /\ cols' = HeaderLocals.cols
                  /\ defaults' = HeaderLocals.defaults
                  /\ rows' = <<>>
                  /\ UNCHANGED <<tables, err>>
    /\ UNCHANGED <<input, hist, consumed, schemas, reader, info, output>>

\* readAll's peek as it would be if the end of the input did not end the
\* loop
ReadAllPeekPastEnd ==
    /\ pc = "readAllPeek"
    /\ LET p == Peek(r)
       IN /\ r' = p.r
          /\ IF p.err # Nil /\ p.err # ErrEOF THEN Return(<<>>, p.err)
             ELSE /\ pc' = "readHeader"
                  /\ cols' = HeaderLocals.cols
                  /\ defaults' = HeaderLocals.defaults
                  /\ rows' = <<>>
                  /\ UNCHANGED <<tables, err>>
    /\ UNCHANGED <<input, hist, consumed, schemas, reader, info, output>>

\* readAll's peek after a table: the end of the stream, or one more table
ReadAllPeek ==
    /\ pc = "readAllPeek"
    /\ LET p == Peek(r)
       IN /\ r' = p.r
          /\ IF p.err = ErrEOF THEN Return(tables, Nil)
             ELSE IF p.err # Nil THEN Return(<<>>, p.err)
             ELSE /\ pc' = "readHeader"
                  /\ cols' = HeaderLocals.cols
                  /\ defaults' = HeaderLocals.defaults
                  /\ rows' = <<>>
                  /\ UNCHANGED <<tables, err>>
    /\ UNCHANGED <<input, hist, consumed, schemas, reader, info, output>>

Next == ReadHeader \/ ReadTableRows \/ ReadAllPeek

Spec == Init /\ [][Next]_vars

\* the decoder runs on: readAll is one sequential loop, and no step of it
\* waits for anything but the blocking read of the input
\* the inputs on which termination is checked: rows of one and two fields,
\* annotation rows and a record that cannot be parsed
FairInputs == SeqsUpTo(ShapeRows, MaxFairRows)

\* main's csvReader and readAll's first turn, on one of these inputs
InitFair ==
    /\ input \in FairInputs
    /\ r = csvReader
    /\ pc = "readHeader"
    /\ hist = <<>>
    /\ DecoderIdle
    /\ cols = HeaderLocals.cols
    /\ defaults = HeaderLocals.defaults

FairSpec == InitFair /\ [][Next]_vars /\ WF_vars(Next)

----------------------------------------------------------------------------
(* The line-protocol encoder: cmd/csv2lineprotocol *)

T_measurement == <<"_", "m", "e", "a", "s", "u", "r", "e", "m", "e", "n", "t">>
T_field == <<"_", "f", "i", "e", "l", "d">>
T_valueColumn == <<"_", "v", "a", "l", "u", "e">>
T_time == <<"_", "t", "i", "m", "e">>
T_underscore == <<"_">>

\* strings.NewReplacer of single characters: each character of `olds` is
\* replaced, wherever it is, by what `escaper` maps it to
tagNameEscaper ==
    "\t" :> <<"\\", "t">> @@ "\n" :> <<"\\", "n">> @@ "\f" :> <<"\\", "f">>
        @@ "\r" :> <<"\\", "r">> @@ "," :> <<"\\", ",">> @@ " " :> <<"\\", " ">>
        @@ "=" :> <<"\\", "=">>
tagValueEscaper == tagNameEscaper
fieldNameEscaper == tagNameEscaper
stringFieldEscaper == "\"" :> <<"\\", "\"">> @@ "\\" :> <<"\\", "\\">>
measurementEscaper ==
    "\t" :> <<"\\", "t">> @@ "\n" :> <<"\\", "n">> @@ "\f" :> <<"\\", "f">>
        @@ "\r" :> <<"\\", "r">> @@ "," :> <<"\\", ",">> @@ " " :> <<"\\", " ">>

RECURSIVE Replace(_, _)
\* (*strings.Replacer).Replace
Replace(s, escaper) ==
    IF s = <<>> THEN <<>>
    ELSE (IF Head(s) \in DOMAIN escaper THEN escaper[Head(s)] ELSE <<Head(s)>>)
             \o Replace(Tail(s), escaper)

RECURSIVE NatDigits(_)
\* the decimal digits of a natural number, as %d prints them
NatDigits(n) ==
    IF n < 10 THEN <<Digits[n + 1]>> ELSE Append(NatDigits(n \div 10), Digits[(n % 10) + 1])

\* %d of an int64 and of a uint64
FormatInt(v) == (IF v.neg THEN <<"-">> ELSE <<>>) \o v.mag
FormatUint(v) == v.mag

\* the digit of the mantissa at decimal place j (place 1 is its first digit)
FloatDigit(v, j) == IF j \in 1..Len(v.mant) THEN v.mant[j] ELSE "0"

\* strconv's %e with the shortest digits: d.ddde+xx, x the decimal exponent
FormatFloatE(v, x) ==
    <<v.mant[1]>>
        \o (IF Len(v.mant) > 1 THEN <<".">> \o Tail(v.mant) ELSE <<>>)
        \o <<"e", IF x < 0 THEN "-" ELSE "+">>
        \o (IF (IF x < 0 THEN -x ELSE x) < 10 THEN <<"0">> ELSE <<>>)
        \o NatDigits(IF x < 0 THEN -x ELSE x)

\* strconv's %f with the shortest digits: dp digits before the point
FormatFloatF(v, dp) ==
    (IF dp > 0 THEN [j \in 1..dp |-> FloatDigit(v, j)] ELSE <<"0">>)
        \o (IF Len(v.mant) > dp
            THEN <<".">> \o [j \in 1..(Len(v.mant) - dp) |-> FloatDigit(v, dp + j)]
            ELSE <<>>)

\* fmt.Sprint of a finite float64: %v is %g with the shortest digits that
\* give the number back, and %e when the decimal exponent is below -4 or at
\* least 6. The digits are those of the decimal read, which are the
\* shortest when there are at most 15 of them.
FormatFloat(v) ==
    (IF v.neg THEN <<"-">> ELSE <<>>)
        \o (IF Len(v.mant) + v.exp - 1 < -4 \/ Len(v.mant) + v.exp - 1 >= 6
            THEN FormatFloatE(v, Len(v.mant) + v.exp - 1)
            ELSE FormatFloatF(v, Len(v.mant) + v.exp))

FormatBool(v) == IF v.b THEN T_true ELSE T_false

\* the days from 1970-01-01 to the first day of year y, and to y-m-d
DaysToYear(y) ==
    365 * (y - 1970) + ((y - 1969) \div 4) - ((y - 1901) \div 100) + ((y - 1601) \div 400)
DaysToDate(y, m, d) ==
    DaysToYear(y) + (d - 1)
        + (IF m = 1 THEN 0
           ELSE LET before == [k \in 1..(m - 1) |-> DaysIn(y, k)]
                    sum[k \in 0..(m - 1)] == IF k = 0 THEN 0 ELSE sum[k - 1] + before[k]
                IN sum[m - 1])

\* (time.Time).Unix: the seconds since 1970-01-01T00:00:00Z
UnixSeconds(t) ==
    DaysToDate(t.date[1], t.date[2], t.date[3]) * 86400
        + t.clock[1] * 3600 + t.clock[2] * 60 + t.clock[3] - t.zone * 60

\* %d of (time.Time).UnixNano, for the instants whose seconds fit 32 bits
\* (1902 to 2037)
FormatNanos(secs, frac) ==
    IF secs > 0 THEN NatDigits(secs) \o frac
    ELSE IF secs = 0 THEN StripZeros(frac)
    ELSE IF NatOf(frac) = 0 THEN <<"-">> \o NatDigits(-secs) \o frac
    ELSE <<"-">>
             \o (IF secs = -1 THEN <<>> ELSE NatDigits(-secs - 1))
             \o (IF secs = -1 THEN NatDigits(1000000000 - NatOf(frac))
                 ELSE SubSeq(<<"0", "0", "0", "0", "0", "0", "0", "0", "0">>
                                 \o NatDigits(1000000000 - NatOf(frac)),
                             Len(NatDigits(1000000000 - NatOf(frac))) + 1,
                             Len(NatDigits(1000000000 - NatOf(frac))) + 9))
UnixNano(t) == FormatNanos(UnixSeconds(t), t.frac)

\* the abort of escapeValue
Panic == [kind |-> "panic"]

\* func escapeValue(v interface{}, escaper *strings.Replacer) string: the
\* text, or the panic on a value of another type
escapeValue(v, escaper) ==
    IF v.kind = "int64" THEN [text |-> FormatInt(v) \o <<"i">>, err |-> Nil]
    ELSE IF v.kind = "uint64" THEN [text |-> FormatUint(v) \o <<"u">>, err |-> Nil]
    ELSE IF v.kind = "float64" THEN [text |-> FormatFloat(v), err |-> Nil]
    ELSE IF v.kind = "bool" THEN [text |-> FormatBool(v), err |-> Nil]
    ELSE IF v.kind = "string" THEN [text |-> Replace(v.s, escaper), err |-> Nil]
    ELSE IF v.kind = "time" THEN [text |-> UnixNano(v) \o <<"i">>, err |-> Nil]
    ELSE [text |-> <<>>, err |-> Panic]

\* type tableInfo, as tableInfoForColumns starts it (indexes count from 0)
tableInfo ==
    [measurement |-> -1, field |-> -1, value |-> -1, time |-> -1,
     tagNames |-> <<>>, tagIndexes |-> <<>>]

ErrWrongType(name, got, want) ==
    [kind |-> "wrongType", column |-> name, got |-> got, want |-> want]
ErrNoColumn(name) == [kind |-> "noColumn", column |-> name]
ErrTableInfo(cause) == [kind |-> "cannotGetTableInfo", cause |-> cause]
ErrUnexpectedValue(kind) == [kind |-> "unexpectedValue", type |-> kind]

\* the name of a tag as it would be if the column's name were taken as it is
TagNameUntrimmed(name) == name

\* tagName := strings.TrimPrefix(col.Name, "_")
TagName(name) == TrimPrefix(name, T_underscore)

\* the test of the type of a _time column as it would be if left out
TimeTypeUnchecked(typ) == TRUE

\* strings.HasPrefix(col.Type, "dateTime:")
TimeTypeOK(typ) == HasPrefix(typ, T_dateTime)

RECURSIVE TableInfoLoop(_, _, _)
\* the loop of tableInfoForColumns from column i on (i counts from 1), with
\* the info gathered so far
TableInfoLoop(cs, i, inf) ==
    IF i > Len(cs) THEN [info |-> inf, err |-> Nil]
    ELSE IF cs[i].Name = T_measurement
    THEN IF cs[i].Type # T_string
         THEN [info |-> Nil, err |-> ErrWrongType(T_measurement, cs[i].Type, T_string)]
         ELSE TableInfoLoop(cs, i + 1, [inf EXCEPT !.measurement = i - 1])
    ELSE IF cs[i].Name = T_field
    THEN IF cs[i].Type # T_string
         THEN [info |-> Nil, err |-> ErrWrongType(T_field, cs[i].Type, T_string)]
         ELSE TableInfoLoop(cs, i + 1, [inf EXCEPT !.field = i - 1])
    ELSE IF cs[i].Name = T_valueColumn
    THEN TableInfoLoop(cs, i + 1, [inf EXCEPT !.value = i - 1])
    ELSE IF cs[i].Name = T_time
    THEN IF ~TimeTypeOK(cs[i].Type)
         THEN [info |-> Nil, err |-> ErrWrongType(T_time, cs[i].Type, T_dateTime \o <<"*">>)]
         ELSE TableInfoLoop(cs, i + 1, [inf EXCEPT !.time = i - 1])
    ELSE IF cs[i].Name = T_empty
    THEN TableInfoLoop(cs, i + 1, inf)
    ELSE TableInfoLoop(cs, i + 1,
                       [inf EXCEPT !.tagNames = Append(@, TagName(cs[i].Name)),
                                   !.tagIndexes = Append(@, i - 1)])

\* what tableInfoForColumns returns after its loop
TableInfoFound(res) ==
    IF res.err # Nil THEN res
    ELSE IF res.info.measurement = -1 THEN [info |-> Nil, err |-> ErrNoColumn(T_measurement)]
    ELSE IF res.info.field = -1 THEN [info |-> Nil, err |-> ErrNoColumn(T_field)]
    ELSE IF res.info.value = -1 THEN [info |-> Nil, err |-> ErrNoColumn(T_valueColumn)]
    ELSE IF res.info.time = -1 THEN [info |-> Nil, err |-> ErrNoColumn(T_time)]
    ELSE res

\* func tableInfoForColumns(cols []annotatedcsv.Column) (*tableInfo, error)
tableInfoForColumns(cs) == TableInfoFound(TableInfoLoop(cs, 1, tableInfo))

\* a piece of a line: a text, or the failure that ends the line
Lit(t) == [text |-> t, err |-> Nil]

RECURSIVE TagSteps(_, _, _)
\* the loop over info.tagNames from tag i on: a comma, the name, an equals
\* sign and the value of each tag
TagSteps(inf, row, i) ==
    IF i > Len(inf.tagNames) THEN <<>>
    ELSE << Lit(<<",">>),
            escapeValue(String(inf.tagNames[i]), tagNameEscaper),
            Lit(<<"=">>),
            escapeValue(row[inf.tagIndexes[i] + 1], tagValueEscaper) >>
             \o TagSteps(inf, row, i + 1)

\* the switch on the type of row[info.value]
ValueStep(v) ==
    IF v.kind = "int64" THEN Lit(FormatInt(v) \o <<"i">>)
    ELSE IF v.kind = "uint64" THEN Lit(FormatUint(v) \o <<"u">>)
    ELSE IF v.kind = "float64" THEN Lit(FormatFloat(v))
    ELSE IF v.kind = "string"
    THEN Lit(<<"\"">> \o escapeValue(v, stringFieldEscaper).text \o <<"\"">>)
    ELSE IF v.kind = "bool" THEN Lit(FormatBool(v))
    ELSE IF v.kind = "time" THEN Lit(UnixNano(v))
    ELSE [text |-> <<>>, err |-> ErrUnexpectedValue(v.kind)]

\* row[info.time].(time.Time).UnixNano(): the assertion panics on a value
\* that is no time.Time
TimeStep(v) ==
    IF v.kind = "time" THEN Lit(UnixNano(v) \o <<"\n">>) ELSE [text |-> <<>>, err |-> Panic]

\* the pieces of the line of a row, in the order they are written
LineSteps(inf, row) ==
    << escapeValue(row[inf.measurement + 1], measurementEscaper) >>
        \o TagSteps(inf, row, 1)
        \o << Lit(<<" ">>),
              escapeValue(row[inf.field + 1], fieldNameEscaper),
              Lit(<<"=">>),
              ValueStep(row[inf.value + 1]),
              Lit(<<" ">>),
              TimeStep(row[inf.time + 1]) >>

RECURSIVE Concat(_)
Concat(steps) == IF steps = <<>> THEN <<>> ELSE Head(steps).text \o Concat(Tail(steps))

\* the first failure among the pieces, if any
FirstErr(steps) ==
    IF \A k \in 1..Len(steps) : steps[k].err = Nil THEN Nil
    ELSE steps[CHOOSE k \in 1..Len(steps) :
                   steps[k].err # Nil /\ \A j \in 1..(k - 1) : steps[j].err = Nil].err

\* the line made of its pieces, or the failure
LineOf(steps) == [text |-> Concat(steps), err |-> FirstErr(steps)]

\* the body of the loop over the rows: the line written, or the failure
EncodeLine(inf, row) == LineOf(LineSteps(inf, row))

\* The annotatedcsv.Reader, whose code is not part of these sources: it is
\* modelled from the description of the schema builder and the table
\* decoder. It delivers the tables of the input one after the other, the
\* columns of each with their defaults converted, and the rows of each as
\* positional values; a row or a default that does not decode ends the
\* stream.
annotatedReader == [table |-> 0, row |-> 0, cols |-> <<>>, values |-> <<>>, err |-> Nil]

\* r.Columns() of a table whose columns are declared as cs
ReaderColumns(cs) ==
    [i \in 1..Len(cs) |->
        [Name |-> cs[i].Name, Type |-> cs[i].Type,
         Default |-> IF cs[i].Default = T_empty THEN Nil
                     ELSE convertToType(cs[i].Default, cs[i].Type).val]]

\* the error of the first default that does not convert, if any
ReaderColumnsErr(cs) ==
    LET bad == {i \in 1..Len(cs) :
                   cs[i].Default # T_empty /\ convertToType(cs[i].Default, cs[i].Type).err # Nil}
        first == CHOOSE i \in bad : \A j \in bad : i <= j
    IN IF bad = {} THEN Nil
       ELSE ErrDefault(cs[first].Default, cs[first].Type,
                       convertToType(cs[first].Default, cs[first].Type).err)

\* r.NextTable() when the columns of a next table are declared as cs, and
\* converting their defaults ends with e
ReaderTable(rdr, cs, e) ==
    IF e # Nil THEN [r |-> [rdr EXCEPT !.err = e], ok |-> FALSE]
    ELSE [r |-> [rdr EXCEPT !.table = @ + 1, !.row = 0, !.values = <<>>,
                            !.cols = ReaderColumns(cs)],
          ok |-> TRUE]

\* r.NextTable()
ReaderNextTable(rdr) ==
    IF rdr.err # Nil \/ rdr.table >= Len(input) THEN [r |-> rdr, ok |-> FALSE]
    ELSE ReaderTable(rdr, input[rdr.table + 1].cols,
                     ReaderColumnsErr(input[rdr.table + 1].cols))

\* r.Row() of a row of as many fields as there are columns: the default,
\* nothing for an empty field of a column without a name, or the field
\* converted
ReaderRow(cs, raw) ==
    [i \in 1..Len(raw) |->
        IF cs[i].Default # Nil /\ raw[i] = T_empty THEN cs[i].Default
        ELSE IF raw[i] = T_empty /\ cs[i].Name = T_empty THEN Nil
        ELSE convertToType(raw[i], cs[i].Type).val]

\* the error of a row that does not decode, if any
ReaderRowErr(cs, raw, line) ==
    IF Len(raw) # Len(cs) THEN ErrColumns(line) ELSE RowMap(cs, raw, line).err

\* r.NextRow() when the fields of a next row are raw, and decoding them ends
\* with e
ReaderRowRead(rdr, raw, e) ==
    IF e # Nil THEN [r |-> [rdr EXCEPT !.err = e], ok |-> FALSE]
    ELSE [r |-> [rdr EXCEPT !.row = @ + 1, !.values = ReaderRow(rdr.cols, raw)], ok |-> TRUE]

\* r.NextRow()
ReaderNextRow(rdr) ==
    IF rdr.err # Nil \/ rdr.row >= Len(input[rdr.table].rows) THEN [r |-> rdr, ok |-> FALSE]
    ELSE ReaderRowRead(rdr, input[rdr.table].rows[rdr.row + 1],
                       ReaderRowErr(rdr.cols, input[rdr.table].rows[rdr.row + 1], rdr.row + 1))

\* the inputs of the encoder: tables of five columns

T_host == <<"h", "o", "s", "t">>
T_start == <<"_", "s", "t", "a", "r", "t">>
T_cpu == <<"c", "p", "u">>
T_temp == <<"t", "e", "m", "p">>
T_mem == <<"m", "e", "m">>

Col(name, typ, def) == [Name |-> name, Type |-> typ, Default |-> def]

ColumnLists ==
    { \* the table of the example of a line
      << Col(T_measurement, T_string, T_empty), Col(T_field, T_string, T_empty),
         Col(T_valueColumn, T_double, T_empty), Col(T_time, T_dateTime \o T_RFC3339, T_empty),
         Col(T_host, T_empty, T_empty) >>,
      \* a string value and a tag whose name starts with an underscore
      << Col(T_measurement, T_string, T_empty), Col(T_field, T_string, T_empty),
         Col(T_valueColumn, T_string, T_empty), Col(T_time, T_dateTime \o T_RFC3339, T_empty),
         Col(T_start, T_empty, T_empty) >>,
      \* two columns named _measurement
      << Col(T_measurement, T_string, T_empty), Col(T_measurement, T_string, T_empty),
         Col(T_field, T_string, T_empty), Col(T_valueColumn, T_long, T_empty),
         Col(T_time, T_dateTime \o T_RFC3339, T_empty) >>,
      \* no column named _time
      << Col(T_measurement, T_string, T_empty), Col(T_field, T_string, T_empty),
         Col(T_valueColumn, T_double, T_empty), Col(T_host, T_empty, T_empty),
         Col(T_empty, T_empty, T_empty) >>,
      \* a _measurement that is no string
      << Col(T_measurement, T_long, T_empty), Col(T_field, T_string, T_empty),
         Col(T_valueColumn, T_double, T_empty), Col(T_time, T_dateTime \o T_RFC3339, T_empty),
         Col(T_host, T_empty, T_empty) >>,
      \* a _time that is no dateTime
      << Col(T_measurement, T_string, T_empty), Col(T_field, T_string, T_empty),
         Col(T_valueColumn, T_double, T_empty), Col(T_time, T_string, T_empty),
         Col(T_host, T_empty, T_empty) >>,
      \* a column without a name, and a default
      << Col(T_empty, T_empty, T_empty), Col(T_measurement, T_string, T_empty),
         Col(T_field, T_string, T_empty), Col(T_valueColumn, T_long, <<"7">>),
         Col(T_time, T_dateTime \o T_RFC3339, T_empty) >> }

RawRows ==
    { <<T_cpu, T_temp, <<"1", ".", "5">>, T_instant, <<"a">>>>,
      <<<<"c", " ", "p">>, <<"t", "=", "1">>, <<"x", "\n", "y">>, T_instant, <<"b", ",", "c">>>>,
      <<T_cpu, T_mem, T_temp, <<"7">>, T_instant>>,
      <<T_empty, T_cpu, T_temp, T_empty, T_instant>> }

LPTables == {[cols |-> cs, rows |-> rs] : cs \in ColumnLists, rs \in SeqsUpTo(RawRows, MaxLPRows)}

LPInputs == SeqsUpTo(LPTables, MaxLPTables)

\* func writeLineProtocol(r *annotatedcsv.Reader, w io.Writer) error

InitLP ==
    /\ input \in LPInputs
    /\ reader = annotatedReader
    /\ pc = "nextTable"
    /\ info = Nil
    /\ output = <<>>
    /\ r = csvReader
    /\ hist = <<>>
    /\ cols = <<>> /\ defaults = <<>> /\ rows = <<>> /\ tables = <<>>
    /\ err = Nil /\ consumed = <<>> /\ schemas = <<>>

\* the body of the loop over the tables, up to the loop over the rows, when
\* r.NextTable() has returned true and left the reader as rdr, and the
\* table info of its columns is ti
LPTableInfo(rdr, ti) ==
    /\ schemas' = Append(schemas, rdr.cols)
    /\ IF ti.err # Nil
       THEN /\ pc' = "done"
            /\ err' = ErrTableInfo(ti.err)
            /\ info' = info
       ELSE /\ pc' = "nextRow"
            /\ info' = ti.info
            /\ err' = err

\* what follows r.NextTable(), n being what it returned
LPTable(n) ==
    /\ reader' = n.r
    /\ IF ~n.ok
       THEN \* return nil
            /\ pc' = "done"
            /\ err' = Nil
            /\ UNCHANGED <<info, schemas>>
       ELSE LPTableInfo(n.r, tableInfoForColumns(n.r.cols))

\* for r.NextTable(), and the table info of the columns of the table
LPNextTable ==
    /\ pc = "nextTable"
    /\ LPTable(ReaderNextTable(reader))
    /\ UNCHANGED <<input, r, cols, defaults, rows, tables, hist, consumed, output>>

\* the body of the loop over the rows, when r.NextRow() has returned true
\* and left the reader as rdr, and the line of the row is line
LPLine(rdr, line) ==
    /\ consumed' = Append(consumed, [table |-> rdr.table, idx |-> rdr.row, row |-> rdr.values])
    /\ IF line.err = Panic
       THEN /\ pc' = "panic"
            /\ UNCHANGED <<err, output>>
       ELSE IF line.err # Nil
       THEN /\ pc' = "done"
            /\ err' = line.err
            /\ output' = output
       ELSE /\ output' = Append(output, line.text)
            /\ UNCHANGED <<pc, err>>

\* what follows r.NextRow(), n being what it returned
LPRow(n) ==
    /\ reader' = n.r
    /\ IF ~n.ok
       THEN /\ pc' = "nextTable"
            /\ UNCHANGED <<err, consumed, output>>
       ELSE LPLine(n.r, EncodeLine(info, n.r.values))

\* for r.NextRow(), and the line of the row
LPNextRow ==
    /\ pc = "nextRow"
    /\ LPRow(ReaderNextRow(reader))
    /\ UNCHANGED <<input, r, cols, defaults, rows, tables, hist, schemas, info>>

NextLP == LPNextTable \/ LPNextRow

SpecLP == InitLP /\ [][NextLP]_vars

----------------------------------------------------------------------------
(* Claims about the csvReader *)

\* whether a row is buffered when the i-th call of hist is made
BufferedBefore(i) == i > 1 /\ hist[i - 1].op = "Peek"

ReadsBefore(i) == IF i = 1 THEN 0 ELSE hist[i - 1].reads
LineBefore(i) == IF i = 1 THEN 0 ELSE hist[i - 1].line

\* the Read calls of hist, in order
ReadCalls == SelectSeq(hist, LAMBDA h : h.op = "Read")

\* C1: in any interleaving of Peek and Read, a Peek or a Read that follows a
\* Peek returns the row and the error that Peek returned and reads nothing
\* from the underlying reader; a Peek or a Read with nothing buffered makes
\* exactly one read of the underlying reader and returns its result; a Read
\* leaves the buffer empty; and the j-th Read returns the j-th result of the
\* underlying reader, none skipped and none delivered twice.
C1_PeekReadContract ==
    /\ \A i \in 1..Len(hist) :
          IF BufferedBefore(i)
          THEN /\ hist[i].row = hist[i - 1].row
               /\ hist[i].err = hist[i - 1].err
               /\ hist[i].reads = ReadsBefore(i)
          ELSE /\ hist[i].reads = ReadsBefore(i) + 1
               /\ hist[i].row = UnderlyingRead(hist[i].reads).row
               /\ hist[i].err = UnderlyingRead(hist[i].reads).err
    /\ hist # <<>> => (r.hasPeeked <=> hist[Len(hist)].op = "Peek")
    /\ \A j \in 1..Len(ReadCalls) :
          /\ ReadCalls[j].row = UnderlyingRead(j).row
          /\ ReadCalls[j].err = UnderlyingRead(j).err

\* two Peeks, then the Read of the peeked row, then a fresh Read of another row
C1_Witness ==
    /\ Len(hist) >= 4
    /\ hist[1].op = "Peek" /\ hist[2].op = "Peek"
    /\ hist[3].op = "Read" /\ hist[4].op = "Read"
    /\ hist[3].err = Nil /\ hist[4].err = Nil
    /\ hist[3].row # hist[4].row

\* the number of records the underlying reader has delivered so far
RowsObtained == Cardinality({k \in 1..r.r : UnderlyingRead(k).err = Nil})

\* C2 as stated: the line counter equals the number of physical rows
\* obtained so far.
C2_LineEqualsRowsObtained == r.line = RowsObtained

\* C2, amended: the line counter never decreases and is incremented exactly
\* once per read made of the underlying reader, a read that reports
\* end-of-input or an error included: a call with a row buffered leaves it
\* alone, so a Peek and the Read of the same row count one line, and as long
\* as no read has reported end-of-input or an error the counter equals the
\* number of rows obtained.
C2_LineCountsReads ==
    /\ r.line = r.r
    /\ \A i \in 1..Len(hist) :
          /\ hist[i].line = hist[i].reads
          /\ hist[i].line = LineBefore(i) + (IF BufferedBefore(i) THEN 0 ELSE 1)
    /\ (\A k \in 1..r.r : UnderlyingRead(k).err = Nil) => r.line = RowsObtained

\* a Peek and the Read of the same row, after which one line is counted, and
\* then a Peek at the end of the input, which counts a line with no row
C2_Witness ==
    /\ Len(hist) >= 3
    /\ hist[1].op = "Peek" /\ hist[1].err = Nil
    /\ hist[2].op = "Read" /\ hist[2].line = 1
    /\ hist[3].op = "Peek" /\ hist[3].err = ErrEOF /\ hist[3].line = 2

----------------------------------------------------------------------------
(* Claims about the decoder *)

\* the rows consumed for table t as header-section rows, and as data rows
HeaderIdx(t) == {k \in 1..Len(consumed) : consumed[k].table = t /\ consumed[k].role = "header"}
DataIdx(t) == {k \in 1..Len(consumed) : consumed[k].table = t /\ consumed[k].role = "data"}

\* the first row of the header section of table t, which fixes its column count
FirstHeader(t) == CHOOSE k \in HeaderIdx(t) : \A j \in HeaderIdx(t) : k <= j
Width(t) == Len(consumed[FirstHeader(t)].row)

\* every consumed row is the row of the input at the position recorded
ConsumedInOrder ==
    \A k \in 1..Len(consumed) :
        /\ consumed[k].idx = k
        /\ input[k].err = Nil
        /\ input[k].row = consumed[k].row

\* C3: a data row consumed with a field count other than the column count of
\* its table is the last row consumed: decoding has failed with the error
\* "inconsistent number of columns" carrying the 1-based position of that
\* row in the input; and every table appended has one row per data row
\* consumed for it, each of exactly as many fields as the table has columns.
C3_DataRowWidth ==
    /\ ConsumedInOrder
    /\ \A k \in 1..Len(consumed) :
          (consumed[k].role = "data" /\ Len(consumed[k].row) # Width(consumed[k].table))
              => /\ k = Len(consumed)
                 /\ pc = "done"
                 /\ err = ErrColumns(k)
    /\ (pc = "done" /\ err.kind = "inconsistentColumns")
          => /\ err.line = Len(consumed)
             /\ consumed[err.line].role = "data"
             /\ Len(input[err.line].row) # Width(consumed[err.line].table)
    /\ \A t \in 1..Len(schemas) :
          /\ t <= Len(tables) => Cardinality(DataIdx(t)) = Len(tables[t].Rows)
          /\ \A k \in DataIdx(t) : Len(consumed[k].row) = Len(schemas[t])

\* the second table's first data row has one field where its header has two
C3_Witness ==
    /\ pc = "done"
    /\ err = ErrColumns(4)
    /\ Len(tables) = 1
    /\ Len(consumed[3].row) = 2
    /\ Len(consumed[4].row) = 1

\* whether table t has a header row: a header-section row that is no annotation
HasHeaderRow(t) == \E k \in HeaderIdx(t) : ~HasHashPrefix(consumed[k].row[1])

\* C4 as stated: when the input ends before a header row is seen for a
\* table, no table is added for it: every table of the decoded sequence has
\* a header row.
C4_EveryTableHasHeader == \A t \in 1..Len(tables) : HasHeaderRow(t)

\* C7 as stated: the keys of every row of a table are among the keys of the
\* table's column map, a column with an empty name and no default being in
\* neither.
C7_RowKeysAmongColumns ==
    \A t \in 1..Len(tables) :
        \A j \in 1..Len(tables[t].Rows) :
            DOMAIN tables[t].Rows[j] \subseteq DOMAIN tables[t].Columns

\* C10: a row of a table's header section, after the first, whose field
\* count differs from the first row's is the last row consumed: decoding
\* has failed with the error "inconsistent table header" carrying the actual
\* and the expected count, and no schema and no table exists for that table.
C10_HeaderWidth ==
    /\ \A k \in 1..Len(consumed) :
          (consumed[k].role = "header" /\ Len(consumed[k].row) # Width(consumed[k].table))
              => /\ k = Len(consumed)
                 /\ pc = "done"
                 /\ err = ErrHeader(Len(consumed[k].row), Width(consumed[k].table))
                 /\ cols = <<>>
                 /\ Len(schemas) < consumed[k].table
                 /\ Len(tables) < consumed[k].table
    /\ (pc = "done" /\ err.kind = "inconsistentHeader")
          => /\ consumed[Len(consumed)].role = "header"
             /\ err.got = Len(consumed[Len(consumed)].row)
             /\ err.want = Width(consumed[Len(consumed)].table)
             /\ err.got # err.want

\* the header row of the second table has one field where the annotation
\* row before it has two
C10_Witness ==
    /\ pc = "done"
    /\ err = ErrHeader(1, 2)
    /\ Len(tables) = 1
    /\ Len(consumed) = 4
    /\ HasHashPrefix(consumed[3].row[1])
    /\ ~HasHashPrefix(consumed[4].row[1])

IsAnnotation(row) == Len(row) > 0 /\ HasHashPrefix(row[1])

\* C5, in every state: a row whose first field starts with '#' is never
\* consumed as a data row; one that follows a data row is the first row of
\* the header section of the next table; and when a table has just been
\* appended with a row pending, that row starts with '#', is in the
\* lookahead buffer and has not been consumed.
C5_Buffered ==
    /\ ConsumedInOrder
    /\ \A k \in 1..Len(consumed) :
          IsAnnotation(consumed[k].row) => consumed[k].role = "header"
    /\ \A k \in 2..Len(consumed) :
          (consumed[k - 1].role = "data" /\ IsAnnotation(consumed[k].row))
              => /\ consumed[k].table = consumed[k - 1].table + 1
                 /\ k = FirstHeader(consumed[k].table)
                 /\ Len(schemas) >= consumed[k - 1].table
    /\ (pc = "readAllPeek" /\ r.err = Nil)
          => /\ r.hasPeeked
             /\ IsAnnotation(r.row)
             /\ r.r = Len(consumed) + 1
             /\ r.row = input[r.r].row

\* C5, in every step: while data rows are read the columns do not change,
\* and a pending row that starts with '#' ends the table with no row
\* consumed: the table appended is made of the columns and the rows as they
\* were, and the row stays in the lookahead buffer.
C5_Step ==
    /\ (pc = "readTableRows" /\ pc' # "done") => cols' = cols
    /\ (pc = "readTableRows" /\ Peek(r).err = Nil /\ IsAnnotation(Peek(r).row))
          => /\ consumed' = consumed
             /\ tables' = Append(tables, table(cols, rows))
             /\ schemas' = Append(schemas, cols)
             /\ r'.hasPeeked /\ r'.row = Peek(r).row /\ r'.err = Nil
             /\ pc' = "readAllPeek"

\* C5: a row whose first field starts with '#', met while data rows are
\* read, ends the table without being consumed, stays in the lookahead
\* buffer, becomes the first header-section row of the next table, and
\* leaves the columns of the table being read as they were.
C5_HashRowEndsTable == [](C5_Buffered) /\ [][C5_Step]_vars

\* a table of one data row, ended by an annotation row that is then
\* consumed as the first header-section row of the second table
C5_Witness ==
    /\ Len(consumed) >= 3
    /\ consumed[2].role = "data"
    /\ IsAnnotation(consumed[3].row)
    /\ consumed[3].role = "header" /\ consumed[3].table = 2
    /\ Len(tables) >= 1 /\ Len(tables[1].Rows) = 1

\* the rows of the header section of table t, in order
HeaderRowsOf(t) ==
    IF HeaderIdx(t) = {} THEN <<>>
    ELSE [j \in 1..Cardinality(HeaderIdx(t)) |-> consumed[FirstHeader(t) + j - 1].row]

\* the last row of H whose first field is `key` (0 if none)
LastWith(H, key) ==
    IF \E j \in 1..Len(H) : H[j][1] = key
    THEN CHOOSE j \in 1..Len(H) : H[j][1] = key /\ \A k \in 1..Len(H) : H[k][1] = key => k <= j
    ELSE 0

\* whether the header section H ends with a header row
Named(H) == H # <<>> /\ ~IsAnnotation(H[Len(H)])

\* what the rows of a header section declare for column i
DeclaredName(H, i) == IF Named(H) THEN H[Len(H)][i] ELSE T_empty
DeclaredType(H, i) ==
    IF i >= 2 /\ LastWith(H, T_datatype) > 0 THEN H[LastWith(H, T_datatype)][i] ELSE T_empty
DeclaredGroup(H, i) ==
    i >= 2 /\ LastWith(H, T_group) > 0 /\ H[LastWith(H, T_group)][i] = T_true
DeclaredDefaultText(H, i) ==
    IF i >= 2 /\ LastWith(H, T_default) > 0 THEN H[LastWith(H, T_default)][i] ELSE T_empty
DeclaredDefault(H, i) ==
    IF Named(H) /\ DeclaredDefaultText(H, i) # T_empty
    THEN convertToType(DeclaredDefaultText(H, i), DeclaredType(H, i)).val
    ELSE Nil

DeclaredSchema(H) ==
    IF H = <<>> THEN <<>>
    ELSE [i \in 1..Len(H[1]) |->
             [Index |-> 0, Name |-> DeclaredName(H, i), Group |-> DeclaredGroup(H, i),
              Default |-> DeclaredDefault(H, i), Type |-> DeclaredType(H, i)]]

\* C6: the columns of every table appended (their count, names, types, group
\* flags and defaults) are what the rows of the table's own header section
\* declare, whatever the tables before it declared, and the table's column
\* map is made of these columns.
C6_SchemaFromOwnHeader ==
    \A t \in 1..Len(schemas) :
        /\ schemas[t] = DeclaredSchema(HeaderRowsOf(t))
        /\ t <= Len(tables) => tables[t].Columns = ColumnsMap(DeclaredSchema(HeaderRowsOf(t)))

\* two tables of two columns: the first declares a default and no group,
\* the second a group and no default, and its row with an empty field maps
\* the column to the empty string, not to the default of the first table
C6_Witness ==
    /\ Len(tables) = 2
    /\ Len(schemas[1]) = 2 /\ Len(schemas[2]) = 2
    /\ schemas[1][2].Default = String(<<"7">>) /\ ~schemas[1][2].Group
    /\ schemas[2][2].Default = Nil /\ schemas[2][2].Group
    /\ tables[2].Rows = << (<<"v">> :> String(T_empty)) >>

\* the five rows of the example
ExampleInput ==
    << Item(<<T_datatype, T_string, T_long>>),
       Item(<<T_group, T_false, T_false>>),
       Item(<<T_empty, T_value>>),
       Item(<<<<"m">>, <<"1">>>>),
       Item(<<<<"m">>, <<"2">>>> ) >>

Int64(neg, mag) == [kind |-> "int64", neg |-> neg, mag |-> mag]

\* C8 as stated: the example decodes without error to one table whose rows
\* are {value: 1} and {value: 2}.
C8_ExampleDecodes ==
    (input = ExampleInput /\ pc = "done")
        => /\ err = Nil
           /\ Len(tables) = 1
           /\ tables[1].Rows = << (T_value :> Int64(FALSE, <<"1">>)),
                                  (T_value :> Int64(FALSE, <<"2">>)) >>

\* C8, amended: decoding the example fails on its third row, the header row
\* of two fields after annotation rows of three, with the error
\* "inconsistent table header (got 2 items want 3)", and yields no table.
C8_ExampleFails ==
    (input = ExampleInput /\ pc = "done")
        => /\ err = ErrHeader(2, 3)
           /\ tables = <<>>
           /\ Len(consumed) = 3

C8_Witness == input = ExampleInput /\ pc = "done" /\ r.line = 3

\* the data rows consumed for table t, in order
DataRowsOf(t) ==
    IF DataIdx(t) = {} THEN <<>>
    ELSE [j \in 1..Cardinality(DataIdx(t)) |->
             consumed[(CHOOSE k \in DataIdx(t) : \A m \in DataIdx(t) : k <= m) + j - 1].row]

\* the columns of table t for which its header section declares a default
Defaulted(t) == {i \in 1..Len(schemas[t]) : DeclaredDefaultText(HeaderRowsOf(t), i) # T_empty}

\* what C9 says the j-th row of table t maps the name of column i to
Expected(t, j, i) ==
    IF DataRowsOf(t)[j][i] = T_empty
    THEN convertToType(DeclaredDefaultText(HeaderRowsOf(t), i),
                       DeclaredType(HeaderRowsOf(t), i)).val
    ELSE convertToType(DataRowsOf(t)[j][i], DeclaredType(HeaderRowsOf(t), i)).val

\* C9 as stated: for every data row and every column with a declared
\* default, the row maps the column's name to the converted default when the
\* field is empty and to the converted field when it is not, the default
\* being converted with the type as finally declared.
C9_DefaultOrField ==
    \A t \in 1..Len(tables) :
        \A j \in 1..Len(tables[t].Rows) :
            \A i \in Defaulted(t) :
                /\ DeclaredName(HeaderRowsOf(t), i) \in DOMAIN tables[t].Rows[j]
                /\ tables[t].Rows[j][DeclaredName(HeaderRowsOf(t), i)] = Expected(t, j, i)

\* whether a column after i has the name of column i and puts a key in
\* the j-th row of table t
Overwritten(t, j, i) ==
    \E k \in (i + 1)..Len(schemas[t]) :
        /\ DeclaredName(HeaderRowsOf(t), k) = DeclaredName(HeaderRowsOf(t), i)
        /\ k \in Keyed(schemas[t], DataRowsOf(t)[j])

\* C9, amended: as stated, for a column whose key in the row is not
\* overwritten by a later column of the same name.
C9_DefaultOrFieldLastWins ==
    \A t \in 1..Len(tables) :
        \A j \in 1..Len(tables[t].Rows) :
            \A i \in Defaulted(t) :
                /\ DeclaredName(HeaderRowsOf(t), i) \in DOMAIN tables[t].Rows[j]
                /\ ~Overwritten(t, j, i)
                      => tables[t].Rows[j][DeclaredName(HeaderRowsOf(t), i)] = Expected(t, j, i)

\* #default comes before #datatype, and a row with an empty field gets the
\* default as a long, a row with a field of its own that field as a long
C9_Witness ==
    /\ Len(tables) = 1 /\ Len(tables[1].Rows) = 2
    /\ DOMAIN tables[1].Rows[1] = {<<"v">>} /\ DOMAIN tables[1].Rows[2] = {<<"v">>}
    /\ consumed[1].row = <<T_default, <<"7">>>>
    /\ consumed[2].row = <<T_datatype, T_long>>
    /\ tables[1].Rows[1][<<"v">>] = Int64(FALSE, <<"7">>)
    /\ tables[1].Rows[2][<<"v">>] = Int64(FALSE, <<"1">>)

----------------------------------------------------------------------------
(* Claims about errors *)

\* the reads of the underlying reader, made so far, that reported an error
\* other than the end of the input
FailedReads == {k \in 1..r.r : k <= Len(input) /\ input[k].err # Nil}

\* C11: an error of the underlying reader other than the end of the input,
\* once reported, is the last read made and stays in the lookahead buffer
\* (the loops of readHeader and readTableRows stop on it without consuming
\* it); when the decoder returns after it, it returns that error and no
\* table; and the decoder returns without an error only when every record
\* of the input has been read without an error and the end of the input is
\* reached.
C11_ReaderErrorReturned ==
    /\ \A k \in FailedReads :
          /\ k = r.r
          /\ r.hasPeeked /\ r.err = input[k].err
          /\ pc = "done" => (err = input[k].err /\ tables = <<>>)
    /\ (pc = "done" /\ err = Nil)
          => /\ r.r = Len(input) + 1
             /\ \A k \in 1..Len(input) : input[k].err = Nil
             /\ Len(consumed) = Len(input)

\* the reader fails among the data rows of a table: the table is built,
\* and the decoder returns the error and no table
C11_Witness ==
    /\ pc = "done"
    /\ err = ErrParse
    /\ tables = <<>>
    /\ Len(schemas) = 1
    /\ DataIdx(1) # {}
    /\ r.r = Len(consumed) + 1

\* the kinds of the errors made by the decoder itself
DecodingErrors ==
    {"noColumns", "inconsistentHeader", "cannotConvertDefault", "inconsistentColumns",
     "cannotParse"}

\* C12 as stated: every error of the decoder's own carries the 1-based
\* position in the input of a row consumed, and every conversion error also
\* the text that does not convert and the declared type.
C12_ErrorsCarryLine ==
    (pc = "done" /\ err.kind \in DecodingErrors)
        => /\ "line" \in DOMAIN err
           /\ err.line \in 1..Len(consumed)
           /\ err.kind \in {"cannotConvertDefault", "cannotParse"}
                 => {"val", "typ"} \subseteq DOMAIN err

----------------------------------------------------------------------------
(* Claims about the line-protocol encoder *)

\* the columns of cs that have the name `name`
ColumnsNamed(cs, name) == {i \in 1..Len(cs) : cs[i].Name = name}

\* whether a column of the name `name` has the type the encoder requires
RightType(name, typ) ==
    IF name \in {T_measurement, T_field} THEN typ = T_string
    ELSE IF name = T_time THEN HasPrefix(typ, T_dateTime)
    ELSE TRUE

Required == {T_measurement, T_field, T_valueColumn, T_time}

\* the required names that cs lacks or declares with a wrong type
Offending(cs) ==
    {n \in Required :
        \/ ColumnsNamed(cs, n) = {}
        \/ \E i \in ColumnsNamed(cs, n) : ~RightType(n, cs[i].Type)}

\* whether the columns of the t-th table of the stream were accepted: the
\* encoder went on to the rows of the table
Accepted(t) ==
    t < Len(schemas) \/ (t = Len(schemas) /\ ~(pc = "done" /\ err.kind = "cannotGetTableInfo"))

\* C13 as stated: a column list is accepted only if it holds exactly one
\* column of each required name, of the right type; a list that lacks one
\* or declares one with a wrong type ends the encoding with an error naming
\* such a column, no line being written for that table.
C13_ExactlyOneOfEach ==
    \A t \in 1..Len(schemas) :
        /\ Accepted(t)
              => \A n \in Required :
                    /\ Cardinality(ColumnsNamed(schemas[t], n)) = 1
                    /\ \A i \in ColumnsNamed(schemas[t], n) : RightType(n, schemas[t][i].Type)
        /\ Offending(schemas[t]) # {}
              => /\ t = Len(schemas)
                 /\ pc = "done"
                 /\ err.kind = "cannotGetTableInfo"
                 /\ err.cause.column \in Offending(schemas[t])
                 /\ \A k \in 1..Len(consumed) : consumed[k].table # t

\* the data rows of the input, each as <<table, row>>, and the place of
\* one of them in the order of the input
InputRows == UNION {{<<t, j>> : j \in 1..Len(input[t].rows)} : t \in 1..Len(input)}
Rank(t, j) == Cardinality({p \in InputRows : p[1] < t \/ (p[1] = t /\ p[2] <= j)})

\* the columns of cs that make a tag: named, and not of a required name
TagColumns(cs) == {i \in 1..Len(cs) : cs[i].Name \notin (Required \cup {T_empty})}

\* the last column of cs of the name `name`
LastNamed(cs, name) ==
    CHOOSE i \in ColumnsNamed(cs, name) : \A j \in ColumnsNamed(cs, name) : j <= i

RECURSIVE TagPairs(_, _, _, _)
\* the tag pairs of the columns of cs from column i on, in column order,
\* for the values vals: a comma, the key, an equals sign, the value; the key
\* of a column is the text that `key` maps the column's name to
TagPairs(cs, vals, key, i) ==
    IF i > Len(cs) THEN <<>>
    ELSE (IF i \in TagColumns(cs)
          THEN <<",">> \o Replace(key[cs[i].Name], tagNameEscaper) \o <<"=">>
                   \o escapeValue(vals[i], tagValueEscaper).text
          ELSE <<>>)
             \o TagPairs(cs, vals, key, i + 1)

\* how a line starts: the measurement, the tag pairs and a space
LineStart(cs, vals, key) ==
    Replace(vals[LastNamed(cs, T_measurement)].s, measurementEscaper)
        \o TagPairs(cs, vals, key, 1) \o <<" ">>

\* the names of the columns of cs as keys: as they are, and without a
\* leading underscore
NameAsKey(cs) == [n \in {cs[i].Name : i \in 1..Len(cs)} |-> n]
NameTrimmedAsKey(cs) ==
    [n \in {cs[i].Name : i \in 1..Len(cs)} |-> IF Len(n) > 0 /\ n[1] = "_" THEN Tail(n) ELSE n]

\* the number of newlines of a text
Newlines(t) == Cardinality({i \in 1..Len(t) : t[i] = "\n"})

\* whether the encoding has ended without an error
Encoded == pc = "done" /\ err = Nil

ValueText(cs, vals) ==
    IF vals[LastNamed(cs, T_valueColumn)].kind = "string"
    THEN vals[LastNamed(cs, T_valueColumn)].s
    ELSE <<>>

ExampleLine ==
    <<"c", "p", "u", ",", "h", "o", "s", "t", "=", "a", " ", "t", "e", "m", "p", "=", "1", ".", "5", " ", "1", "6", "7", "2", "5", "3", "1", "2", "0", "0", "0", "0", "0", "0", "0", "0", "0", "0", "0", "\n">>

----------------------------------------------------------------------------
(* Claims about anomalies and the kinds of values *)

KnownKeys == {T_datatype, T_group, T_default}

\* a type tag that convertToType does not know
Unrecognized(typ) ==
    /\ typ \notin {T_boolean, T_long, T_unsignedLong, T_double, T_string, T_tag, T_empty}
    /\ ~HasPrefix(typ, T_dateTime)

\* C15, in every state: decoding never fails on a field or a default of a
\* column whose type tag is not known; the default of such a column is the
\* text of the default as a String; and a row maps the name of such a column
\* to the text of its field as a String (unless a later column of the same
\* name overwrites it, or the field is empty and the default stands for it).
C15_PassThrough ==
    /\ (pc = "done" /\ err.kind \in {"cannotParse", "cannotConvertDefault"})
          => ~Unrecognized(err.typ)
    /\ \A t \in 1..Len(schemas) :
          \A i \in 1..Len(schemas[t]) :
              Unrecognized(schemas[t][i].Type)
                  => /\ (Named(HeaderRowsOf(t)) /\ DeclaredDefaultText(HeaderRowsOf(t), i) # T_empty)
                           => schemas[t][i].Default
                                  = String(DeclaredDefaultText(HeaderRowsOf(t), i))
                     /\ t <= Len(tables)
                           => \A j \in 1..Len(tables[t].Rows) :
                                 (i \in Converted(schemas[t], DataRowsOf(t)[j])
                                     /\ ~Overwritten(t, j, i))
                                     => tables[t].Rows[j][schemas[t][i].Name]
                                            = String(DataRowsOf(t)[j][i])

\* C15, in every step: a header-section row whose first field starts with
\* '#' and is none of #datatype, #group and #default, of the field count of
\* the header section (or its first row), leaves the decoder in the header
\* section without an error, the defaults as they were, and the columns as
\* they were (as many columns, all zero valued, when it is the first row).
C15_Step ==
    (/\ pc = "readHeader"
     /\ Peek(r).err = Nil
     /\ IsAnnotation(Peek(r).row)
     /\ Peek(r).row[1] \notin KnownKeys
     /\ (cols = <<>> \/ Len(Peek(r).row) = Len(cols)))
        => /\ pc' = "readHeader"
           /\ err' = Nil
           /\ defaults' = defaults
           /\ cols' = IF cols = <<>> THEN [i \in 1..Len(Peek(r).row) |-> column] ELSE cols
           /\ tables' = tables

\* C15: an annotation row with an unknown key changes no column, and a field
\* or a default of a column with an unknown type tag is passed through as
\* its text, decoding never failing on either.
C15_AnomaliesRecoverable == [](C15_PassThrough) /\ [][C15_Step]_vars

\* a table declared with a row of an unknown key, then the unknown type
\* int and a default: the default and the field of the data row are Strings
C15_Witness ==
    /\ pc = "done" /\ err = Nil
    /\ Len(tables) = 1 /\ Len(consumed) = 5
    /\ consumed[1].row[1] = T_unknownKey
    /\ schemas[1][2].Type = T_int
    /\ schemas[1][2].Default = String(<<"7">>)
    /\ tables[1].Rows = << (<<"v">> :> String(<<"x">>)) >>

\* the kind of value that goes with a type tag, as C16 lists them
KindOf(typ) ==
    IF typ = T_boolean THEN "bool"
    ELSE IF typ = T_long THEN "int64"
    ELSE IF typ = T_unsignedLong THEN "uint64"
    ELSE IF typ = T_double THEN "float64"
    ELSE IF typ \in {T_string, T_tag, T_empty} THEN "string"
    ELSE IF HasPrefix(typ, T_dateTime) THEN "time"
    ELSE "any"

\* the schemas built: those of the tables appended, and the one being used
\* to read data rows
BuiltSchemas == schemas \o (IF pc = "readTableRows" THEN <<cols>> ELSE <<>>)

\* C16 as stated: the default of every column of a built schema, when
\* present, is of the kind of the column's declared type.
C16_DefaultKind ==
    \A t \in 1..Len(BuiltSchemas) :
        \A i \in 1..Len(BuiltSchemas[t]) :
            (BuiltSchemas[t][i].Default # Nil /\ KindOf(BuiltSchemas[t][i].Type) # "any")
                => BuiltSchemas[t][i].Default.kind = KindOf(BuiltSchemas[t][i].Type)

\* whether a value is the text of an infinity or of a NaN, as a String
NonFiniteText(v) ==
    /\ v.kind = "string"
    /\ ParseFloat(v.s).err = Nil
    /\ ParseFloat(v.s).val.class \in {"inf", "nan"}

\* C16, amended: as stated, except that the default of a column of type
\* double is a String, the text of the default, when that text reads as an
\* infinity or a NaN, and a float64 that is finite otherwise.
C16_DefaultKindOrText ==
    \A t \in 1..Len(BuiltSchemas) :
        \A i \in 1..Len(BuiltSchemas[t]) :
            (BuiltSchemas[t][i].Default # Nil /\ KindOf(BuiltSchemas[t][i].Type) # "any")
                => IF BuiltSchemas[t][i].Type = T_double
                   THEN \/ NonFiniteText(BuiltSchemas[t][i].Default)
                        \/ /\ BuiltSchemas[t][i].Default.kind = "float64"
                           /\ BuiltSchemas[t][i].Default.class = "finite"
                   ELSE BuiltSchemas[t][i].Default.kind = KindOf(BuiltSchemas[t][i].Type)

\* a table appended whose column of type double has the default NaN, kept
\* as a String
C16_Witness ==
    /\ Len(schemas) = 1
    /\ Len(schemas[1]) = 2
    /\ schemas[1][2].Type = T_double
    /\ schemas[1][2].Default = String(T_NaN)
    /\ Len(consumed) = 3

----------------------------------------------------------------------------
(* Claims about the failures of the encoder *)

ValueKinds == {"bool", "int64", "uint64", "float64", "string", "time"}

\* whether every value of a row delivered is one the encoder can write: a
\* value of one of the six kinds in every column with a name, and a time in
\* the column that info.time points at
Writable(c) ==
    /\ \A i \in 1..Len(schemas[c.table]) :
          schemas[c.table][i].Name # T_empty => c.row[i].kind \in ValueKinds
    /\ Offending(schemas[c.table]) = {}
          => c.row[LastNamed(schemas[c.table], T_time)].kind = "time"

----------------------------------------------------------------------------
(* Claims about the rows consumed *)

\* whether the k-th row of the input is a row of a header section: an
\* annotation row, the first row, or the row after an annotation row
InHeaderSection(k) ==
    \/ IsAnnotation(input[k].row)
    \/ k = 1
    \/ IsAnnotation(input[k - 1].row)

\* whether the k-th row of the input starts a table: the first row, and an
\* annotation row that follows a row that is none
StartsTable(k) == k = 1 \/ (IsAnnotation(input[k].row) /\ ~IsAnnotation(input[k - 1].row))

\* the table of the k-th row of the input
TableAt(k) == Cardinality({m \in 1..k : StartsTable(m)})

\* the position in the input of the j-th data row of table t
NthData(t, j) == CHOOSE k \in DataIdx(t) : Cardinality({m \in DataIdx(t) : m <= k}) = j

\* C18: when decoding has ended without an error, the rows consumed are the
\* rows of the input, each once and in order, each as a header-section row
\* or as a data row of the one table it belongs to; and the rows of the
\* tables, in table order, are the data rows of the input in their order:
\* the j-th row of a table is made of the j-th data row of that table.
C18_EveryRowOnce ==
    (pc = "done" /\ err = Nil)
        => /\ Len(consumed) = Len(input)
           /\ \A k \in 1..Len(consumed) :
                 /\ consumed[k].idx = k
                 /\ consumed[k].row = input[k].row
                 /\ input[k].err = Nil
                 /\ consumed[k].role = IF InHeaderSection(k) THEN "header" ELSE "data"
                 /\ consumed[k].table = TableAt(k)
                 /\ consumed[k].table \in 1..Len(tables)
           /\ \A t \in 1..Len(tables) :
                 /\ Len(tables[t].Rows) = Cardinality(DataIdx(t))
                 /\ \A j \in 1..Len(tables[t].Rows) :
                       /\ tables[t].Rows[j]
                             = RowMap(schemas[t], input[NthData(t, j)].row, NthData(t, j)).rowMap
                       /\ j > 1 => NthData(t, j - 1) < NthData(t, j)

\* two tables decoded without an error, of one data row each: the second
\* starts with the annotation row that ended the first
C18_Witness ==
    /\ pc = "done" /\ err = Nil
    /\ Len(input) = 5
    /\ Len(tables) = 2
    /\ Len(tables[1].Rows) = 1
    /\ Len(tables[2].Rows) = 1
    /\ consumed[2].role = "data" /\ consumed[2].table = 1
    /\ consumed[3].role = "header" /\ consumed[3].table = 2
    /\ consumed[5].role = "data" /\ consumed[5].table = 2

----------------------------------------------------------------------------
(* Claims about termination *)

\* whether readAll is in a call of readTable, or has returned the error of one
InReadTable ==
    \/ pc \in {"readHeader", "readTableRows"}
    \/ /\ pc = "done"
       /\ err # Nil
       /\ err.kind \in {"noColumns", "inconsistentHeader", "cannotConvertDefault",
                        "inconsistentColumns", "cannotParse"}

\* the turns of readAll's loop begun: one per table appended, and the one
\* that is under way or has failed
Iterations == Len(schemas) + (IF InReadTable THEN 1 ELSE 0)

\* the rows of the input
NumRows == Cardinality({k \in 1..Len(input) : input[k].err = Nil})

\* whether the t-th turn of readAll's loop is past the first turn of
\* readHeader's
PastFirstPeek(t) == t < Iterations \/ pc \in {"readTableRows", "readAllPeek", "done"}

\* every turn of readAll's loop that starts with a row to read (the first
\* when the input starts with a row, every later one) consumes a row
TurnsConsume ==
    \A t \in 1..Iterations :
        (PastFirstPeek(t) /\ (t > 1 \/ (input # <<>> /\ input[1].err = Nil)))
            => HeaderIdx(t) # {}

\* a turn of readHeader's loop that peeks a row consumes that row
C19_Step ==
    (pc = "readHeader" /\ Peek(r).err = Nil)
        => /\ ~r'.hasPeeked
           /\ r'.r = Len(consumed')
           /\ Len(consumed') = Len(consumed) + 1
           /\ consumed'[Len(consumed')].row = Peek(r).row

\* C19 as stated: the decoder terminates; every turn of readAll's loop that
\* starts with a row to read consumes at least one, readHeader consuming
\* the row it peeked; and the loop ends after at most as many turns as the
\* input has rows.
C19_EndsWithinRows ==
    /\ <>(pc = "done")
    /\ [](TurnsConsume)
    /\ [][C19_Step]_vars
    /\ [](pc = "done" => Iterations <= NumRows)

\* the bound of the turns: the rows of the input, or one for an input
\* without a row
MostTurns == IF NumRows = 0 THEN 1 ELSE NumRows

\* C19, amended: as stated, except that the loop ends after at most as many
\* turns as the input has rows when it has any, and after one turn when it
\* has none.
C19_EndsWithinRowsOrOne ==
    /\ <>(pc = "done")
    /\ [](TurnsConsume)
    /\ [][C19_Step]_vars
    /\ [](Iterations <= MostTurns)

\* the loop ended after two turns on an input of four rows, all consumed
C19_Witness ==
    /\ pc = "done"
    /\ Iterations = 2
    /\ Len(input) = 4
    /\ Len(consumed) = 4
    /\ HeaderIdx(2) # {}

====
